---- MODULE Spec2Model ----
(***************************************************************************)
(* Model of github.com/zhmlst/chat: the frame codec (internal/msg), the    *)
(* token handshake of client and server (session.go), the session output   *)
(* task (session.go), the client's stream reader (client.go) and the       *)
(* server's connection lifecycle (server.go).                              *)
(*                                                                         *)
(* Streams are byte sequences; a frame on the wire is its 53 header bytes  *)
(* followed by its payload bytes.  Byte strings are sequences of 0..255.   *)
(***************************************************************************)
EXTENDS FiniteSets, Integers, Sequences, TLC

(* ------------------------------ bounds -------------------------------- *)
MaxConns == 2
MaxTokens == 2
MaxPeerFrames == 2
MaxChunks == 1
MaxInBytes == 9
MaxRead == 2
MaxEchoIn == 2
MaxEchoes == 9
MaxOutChunks == 3
MaxLines == 1
MaxNils == 1

(* ------------------------- program constants -------------------------- *)
offType == 0
offLen == 1
offTS == 5
offID == 21
offTok == 37
hdrLen == 53
TypeControl == 0
TypeText == 1
TypeBinary == 2
buflen == 4096
chansz == 8
maxAttempts == 3
tokLen == 16
StopServer == 0
ToManyConns == 1
Done == 2
offTypeH == 0
offLenH == 1
offTSH == 9
offIDH == 25
offTokH == 41
hdrLenH == 57

(* --------------------------- byte strings ----------------------------- *)
Zeros(n) == [i \in 1..n |-> 0]

Fill(n, b) == [i \in 1..n |-> b]

\* copy(dst[off:off+len(src)], src)
CopyAt(dst, off, src) ==
  [i \in 1..Len(dst) |->
     IF i > off /\ i <= off + Len(src) THEN src[i - off] ELSE dst[i]]

\* dst[off:off+n]
Slice(s, off, n) == SubSeq(s, off + 1, off + n)

\* s[n:]
Drop(s, n) == SubSeq(s, n + 1, Len(s))

\* byte(v >> sh) for a non-negative v below 2^31
ByteAt(v, sh) == IF sh >= 31 THEN 0 ELSE (v \div (2 ^ sh)) % 256

PldAck == <<97, 99, 107>>
PldLogin == <<108, 111, 103, 105, 110>>
PldOk == <<111, 107>>
PldNo == <<110, 111>>
PldHello == <<104, 101, 108, 108, 111>>
PldJunk == <<104, 105>>

\* the 16-byte values rand.Read can produce, cut down to a pool
TokenOf(k) == Fill(tokLen, k)
Tokens == {TokenOf(k) : k \in 1..MaxTokens}
ZeroTok == Zeros(tokLen)
MsgIDs == {Fill(16, 201), Fill(16, 202)}
Timestamps == {16909060}

(* ------------------- internal/msg: header accessors ------------------- *)
setID(hdr, id) == CopyAt(hdr, offID, id)

ID(hdr) == Slice(hdr, offID, 16)

SetToken(hdr, tok) == CopyAt(hdr, offTok, tok)

Token(hdr) == Slice(hdr, offTok, 16)

SetType(hdr, typ) == [hdr EXCEPT ![offType + 1] = typ % 256]

Type(hdr) == hdr[offType + 1]

SetLen(hdr, length) ==
  [hdr EXCEPT ![offLen + 1] = ByteAt(length, 24),
              ![offLen + 2] = ByteAt(length, 16),
              ![offLen + 3] = ByteAt(length, 8),
              ![offLen + 4] = ByteAt(length, 0)]

HLen(hdr) ==
  hdr[offLen + 1] * 16777216 + hdr[offLen + 2] * 65536
    + hdr[offLen + 3] * 256 + hdr[offLen + 4]

setTimestamp(hdr, ms) ==
  [i \in 1..Len(hdr) |->
     IF i > offTS /\ i <= offTS + 8
       THEN ByteAt(ms, 56 - 8 * (i - offTS - 1))
       ELSE hdr[i]]

\* the uint64 the eight timestamp bytes hold, most significant first
tsMillis(hdr) ==
  LET RECURSIVE fold(_, _)
      fold(i, ms) == IF i = 8 THEN ms
                     ELSE fold(i + 1, ms * 256 + hdr[offTS + i + 1])
  IN  fold(0, 0)

\* Timestamp(): time.Unix(sec, nsec)
Timestamp(hdr) ==
  [sec |-> tsMillis(hdr) \div 1000,
   nsec |-> (tsMillis(hdr) % 1000) * 1000000]

\* time.Time.UnixMilli
UnixMilli(t) == t.sec * 1000 + t.nsec \div 1000000

\* msg.New: a zero header with a random id and the current time
New(id, ms) == setTimestamp(setID(Zeros(hdrLen), id), ms)

\* the bytes Message.Write puts on the writer when every write succeeds
WriteBytes(hdr, pld) == SetLen(hdr, Len(pld)) \o pld

\* the message every handshake step builds: msg.New, then SetType(TypeControl)
CtlMsg(id, ms) == SetType(New(id, ms), TypeControl)

(* --------------------- internal/msg: receiving ------------------------ *)
\* Rcv has its 53 header bytes
HdrReady(buf) == Len(buf) >= hdrLen

RcvHdr(buf) == Slice(buf, 0, hdrLen)

\* Rcv followed by ReadFull has the whole frame
FrameReady(buf) == HdrReady(buf) /\ Len(buf) >= hdrLen + HLen(RcvHdr(buf))

\* the payload ReadFull returns: the Len() bytes after the header
ReadFull(buf) == Slice(buf, hdrLen, HLen(RcvHdr(buf)))

\* what is left on the stream after the frame was consumed
AfterFrame(buf) == Drop(buf, hdrLen + HLen(RcvHdr(buf)))

\* msg.go:84-87: the read that takes the last bytes of the header takes the
\* last bytes of the stream, whose end has been received, so it returns them
\* together with io.EOF and Rcv returns the error
rcvAtEOF(buf, fin) == fin /\ Len(buf) = hdrLen

\* msg.go:83-90 and the reads of ReadFull: a read takes the bytes the stream
\* holds, up to what the message still needs, and the next read waits for
\* more.  rd is what the reads of the message have taken so far and buf what
\* the stream holds; a failed Rcv or ReadFull leaves on the stream what it
\* did not read.  A read on a closed connection takes nothing; the reads
\* that come to the end of a stream that ended short of the message, or with
\* the last byte of the header, have taken all of it.
readFailLeaves(rd, buf, fin, closed) ==
  IF ~closed /\ fin
       /\ (~FrameReady(rd \o buf) \/ rcvAtEOF(rd \o buf, fin))
    THEN <<>> ELSE buf

(* ------------------------------- state -------------------------------- *)
Conns == 1..MaxConns

VARIABLES
  env,        \* the run's environment: whether calls into it may fail
  repo,       \* the server's TokenRepo: the tokens SaveToken stored
  mgr,        \* Server: conns, mtx, ctx, lnr, sessionsWG, the accept loop,
              \* and whether the server's process is running
  stop,       \* the Stop() calls in progress, by caller
  cli,        \* per connection: Client.handshake and the client's reader
  hs,         \* per connection: Server.handshake
  net,        \* per connection: the stream's two directions
  task,       \* per connection: the server's handling goroutine
  sess,       \* per connection: the Session's outbound channel and writer
  closeCalls  \* per connection: the codes closeConn was called with

vars == <<env, repo, mgr, stop, cli, hs, net, task, sess, closeCalls>>

\* the connection was closed by the server (conn.CloseWithError was called)
ConnClosed(c) == closeCalls[c] # <<>>

cli0 ==
  [kind |-> "client", pc |-> "idle", attempt |-> 1, cache |-> <<>>,
   cache0 |-> <<>>,
   tok |-> ZeroTok, err |-> "nil", acks |-> 0, logins |-> 0, rejects |-> 0,
   sent |-> 0, budget |-> 0, recv |-> <<>>, lost |-> <<>>, rd |-> <<>>,
   reader |-> "none", writer |-> "none", lines |-> 0, returned |-> FALSE]

hs0 ==
  [kind |-> "server", pc |-> "idle", hdr |-> Zeros(hdrLen), pld |-> <<>>,
   tok |-> ZeroTok, has |-> FALSE, err |-> "nil", stream |-> FALSE,
   rcvd |-> 0, resp |-> 0, chunks |-> <<>>,
   checked |-> <<>>, saved |-> {}, sentToks |-> {}, last |-> <<>>,
   noes |-> 0, rd |-> <<>>]

net0 ==
  [opened |-> FALSE, c2s |-> <<>>, s2c |-> <<>>, cfin |-> FALSE,
   sfin |-> FALSE, cclosed |-> FALSE, sclosed |-> FALSE]

task0 == [pc |-> "idle", calls |-> 0, how |-> "none"]

mgr0 ==
  [conns |-> {}, mtx |-> "free", ctx |-> "live", lnr |-> "open",
   sessionsWG |-> 0, apc |-> "accept", cur |-> 0, next |-> 1,
   ret |-> "none", dropped |-> {}, up |-> TRUE]

stop0 ==
  [pc |-> "idle", left |-> {}, took |-> {}, cerr |-> "nil", errs |-> <<>>,
   ret |-> <<>>]

StopCallers == {"user", "serve"}

sess0 ==
  [exists |-> FALSE, out |-> <<>>, outClosed |-> FALSE, opc |-> "none",
   buf |-> <<>>, put |-> <<>>, wrote |-> <<>>, closes |-> 0,
   ipc |-> "none", ibuf |-> <<>>, held |-> <<>>, inq |-> <<>>,
   inClosed |-> FALSE, icloses |-> 0, reads |-> <<>>, got |-> <<>>,
   late |-> 0, nils |-> 0, hpc |-> "none", hmsg |-> <<>>, echoes |-> 0]

(* ------------------- session.go: Client.handshake --------------------- *)
\* session.go:166-172, the deferred function of Client.handshake, by what
\* comes out of the call.  Every failure after the stream was opened is a
\* `return nil, err`: it sets the named result stream to nil before the
\* deferred function runs, the function finds err non-nil and calls
\* stream.Close() on the nil stream, and the call panics.  The stream is not
\* closed and no error is returned.  With a nil err the function does nothing.
cliDeferClose(err) == IF err # "nil" THEN "panic" ELSE "nil"

\* Client.handshake ends on `return ..., err` with the stream in state n,
\* after the deferred function was registered.  pc "failed" is a handshake
\* that ended without a stream, and err is what came out of it: the error it
\* returned (the failure of OpenStreamSync only), or "panic".  What the
\* reads of an unfinished message had taken is gone with the call.
CliReturn(c, err, n) ==
  /\ cli' = [cli EXCEPT ![c].pc = IF err = "nil" THEN "done" ELSE "failed",
                        ![c].err = cliDeferClose(err),
                        ![c].rd = <<>>]
  /\ net' = [net EXCEPT ![c] = n]

\* a token() that asks for a new token every time
needsTokenAlways(rawtok, rep) == TRUE

\* a token() that ignores rep
needsTokenNoForce(rawtok, rep) == Len(rawtok) # tokLen

\* session.go:102: an empty, missing or wrong-sized token file, or a retry
needsToken(rawtok, rep) == Len(rawtok) # tokLen \/ rep

\* session.go:120: the payload of the reply is not a token's 16 bytes
tokenInvalid(rawtok) == Len(rawtok) # tokLen

\* session.go:176: the second and later attempts force a new token
forceRetry(attempt) == attempt > 1

\* session.go:204: the retry budget is used up
budgetSpent(attempt) == attempt > maxAttempts

\* the prefixes a failed Message.Write can leave on the stream
Partial(frame) == {<<>>, SubSeq(frame, 1, hdrLen)}

\* the client can write to its stream
CliCanWrite(c) == net[c].opened /\ ~net[c].cfin /\ ~ConnClosed(c)

\* a read of the client's fails: the server's side ended short of what the
\* read needs, or the connection is closed (a read on a closed connection
\* fails whatever is buffered)
CliReadEnds(c, ready) == (~ready /\ net[c].sfin) \/ ConnClosed(c)

\* session.go:160-163: conn.OpenStreamSync
CliOpen(c) ==
  /\ cli[c].kind = "client" /\ cli[c].pc = "idle"
  /\ \/ /\ ~ConnClosed(c)
        /\ cli' = [cli EXCEPT ![c].pc = "tok"]
        /\ net' = [net EXCEPT ![c].opened = TRUE]
     \/ /\ env.faulty \/ ConnClosed(c)
        /\ cli' = [cli EXCEPT ![c].pc = "failed", ![c].err = "io"]
        /\ UNCHANGED net
  /\ UNCHANGED <<env, repo, mgr, stop, hs, task, sess, closeCalls>>

\* session.go:96-111 and 128-131: Client.token up to the "ack" request, or
\* straight to the cached token
CliToken(c) ==
  /\ cli[c].kind = "client" /\ cli[c].pc = "tok"
  /\ LET st == cli[c]
         rep == forceRetry(st.attempt) IN
     \/ /\ env.faulty            \* os.ReadFile or msg.New fails
        /\ CliReturn(c, "io", net[c])
     \/ /\ needsToken(st.cache, rep)
        /\ \E id \in MsgIDs, ms \in Timestamps :
             LET frame == WriteBytes(CtlMsg(id, ms), PldAck) IN
             \/ /\ CliCanWrite(c)
                /\ cli' = [cli EXCEPT ![c].pc = "awaittok",
                                      ![c].acks = st.acks + 1]
                /\ net' = [net EXCEPT ![c].c2s = @ \o frame]
             \/ /\ env.faulty \/ ~CliCanWrite(c)
                /\ \E part \in Partial(frame) :
                     CliReturn(c, "io",
                       [net[c] EXCEPT !.c2s =
                          IF CliCanWrite(c) THEN @ \o part ELSE @])
     \/ /\ ~needsToken(st.cache, rep)
        /\ cli' = [cli EXCEPT ![c].pc = "login", ![c].tok = st.cache]
        /\ UNCHANGED net
  /\ UNCHANGED <<env, repo, mgr, stop, hs, task, sess, closeCalls>>

\* session.go:134-153: what a failed saveToken leaves in the token file.
\* MkdirAll or OpenFile fails and the file is as it was; after O_TRUNC the
\* file is empty, or holds the part a failed file.Write wrote; file.Write
\* wrote the whole token and the deferred file.Close() fails.
saveTokenLeaves(old, tok) ==
  {old, <<>>, SubSeq(tok, 1, 1), SubSeq(tok, 1, Len(tok) - 1), tok}

\* session.go:112-131: Client.token from the token response on.  The client
\* is in msg.Rcv (session.go:112) while rd holds less than a header, and in
\* ReadFull (session.go:116) from then on.
CliRecvToken(c) ==
  /\ cli[c].kind = "client" /\ cli[c].pc = "awaittok"
  /\ LET st == cli[c]
         buf == st.rd \o net[c].s2c IN
     \/ /\ FrameReady(buf) /\ ~ConnClosed(c) /\ ~rcvAtEOF(buf, net[c].sfin)
        /\ LET rawtok == ReadFull(buf)
               n1 == [net[c] EXCEPT !.s2c = AfterFrame(buf)] IN
           IF tokenInvalid(rawtok)
             THEN CliReturn(c, "ErrInvalidToken", n1)
             ELSE \/ /\ cli' = [cli EXCEPT ![c].pc = "login",
                                           ![c].rd = <<>>,
                                           ![c].cache = rawtok,
                                           ![c].tok = rawtok]
                     /\ net' = [net EXCEPT ![c] = n1]
                  \/ /\ env.faulty     \* saveToken fails
                     /\ \E left \in saveTokenLeaves(st.cache, rawtok) :
                          /\ cli' = [cli EXCEPT
                                       ![c].pc = "failed", ![c].rd = <<>>,
                                       ![c].err = cliDeferClose("io"),
                                       ![c].cache = left]
                          /\ net' = [net EXCEPT ![c] = n1]
     \/ /\ ~FrameReady(buf) /\ net[c].s2c # <<>>
        /\ ~ConnClosed(c) /\ ~net[c].sfin
        /\ cli' = [cli EXCEPT ![c].rd = buf]
        /\ net' = [net EXCEPT ![c].s2c = <<>>]
     \/ /\ \/ env.faulty \/ CliReadEnds(c, FrameReady(buf))
           \/ rcvAtEOF(buf, net[c].sfin)
        /\ CliReturn(c, "io",
             [net[c] EXCEPT !.s2c = readFailLeaves(st.rd, @, net[c].sfin,
                                                   ConnClosed(c))])
  /\ UNCHANGED <<env, repo, mgr, stop, hs, task, sess, closeCalls>>

\* session.go:182-191: the login request, with the token in the header
CliLogin(c) ==
  /\ cli[c].kind = "client" /\ cli[c].pc = "login"
  /\ LET st == cli[c] IN
     \E id \in MsgIDs, ms \in Timestamps :
       LET frame == WriteBytes(SetToken(CtlMsg(id, ms), st.tok), PldLogin) IN
       \/ /\ CliCanWrite(c)
          /\ cli' = [cli EXCEPT ![c].pc = "awaitresp",
                                ![c].logins = st.logins + 1]
          /\ net' = [net EXCEPT ![c].c2s = @ \o frame]
       \/ /\ env.faulty \/ ~CliCanWrite(c)
          /\ \E part \in Partial(frame) :
               CliReturn(c, "io",
                 [net[c] EXCEPT !.c2s =
                    IF CliCanWrite(c) THEN @ \o part ELSE @])
  /\ UNCHANGED <<env, repo, mgr, stop, hs, task, sess, closeCalls>>

\* session.go:193-212: the login response, and the retry.  The client is in
\* msg.Rcv (session.go:193) while rd holds less than a header, and in
\* ReadFull (session.go:197) from then on.
CliRecvResp(c) ==
  /\ cli[c].kind = "client" /\ cli[c].pc = "awaitresp"
  /\ LET st == cli[c]
         buf == st.rd \o net[c].s2c IN
     \/ /\ FrameReady(buf) /\ ~ConnClosed(c) /\ ~rcvAtEOF(buf, net[c].sfin)
        /\ LET resp == ReadFull(buf)
               n1 == [net[c] EXCEPT !.s2c = AfterFrame(buf)] IN
           IF resp # PldOk
             THEN IF budgetSpent(st.attempt)
                    THEN /\ cli' = [cli EXCEPT
                                      ![c].pc = "failed", ![c].rd = <<>>,
                                      ![c].err = cliDeferClose("ErrInternal"),
                                      ![c].rejects = st.rejects + 1]
                         /\ net' = [net EXCEPT ![c] = n1]
                    ELSE /\ cli' = [cli EXCEPT ![c].pc = "tok",
                                               ![c].rd = <<>>,
                                               ![c].attempt = st.attempt + 1,
                                               ![c].rejects = st.rejects + 1]
                         /\ net' = [net EXCEPT ![c] = n1]
             ELSE CliReturn(c, "nil", n1)
     \/ /\ ~FrameReady(buf) /\ net[c].s2c # <<>>
        /\ ~ConnClosed(c) /\ ~net[c].sfin
        /\ cli' = [cli EXCEPT ![c].rd = buf]
        /\ net' = [net EXCEPT ![c].s2c = <<>>]
     \/ /\ \/ env.faulty \/ CliReadEnds(c, FrameReady(buf))
           \/ rcvAtEOF(buf, net[c].sfin)
        /\ CliReturn(c, "io",
             [net[c] EXCEPT !.s2c = readFailLeaves(st.rd, @, net[c].sfin,
                                                   ConnClosed(c))])
  /\ UNCHANGED <<env, repo, mgr, stop, hs, task, sess, closeCalls>>

(* ----------------- cmd/server/main.go: InmemTokenRepo ----------------- *)
SaveToken(r, tok) == r \cup {tok}

HasToken(r, tok) == tok \in r

(* ------------------- session.go: Server.handshake --------------------- *)
\* session.go:223-229, the deferred function of Server.handshake, by what
\* comes out of the call: as in Client.handshake, every failure after the
\* stream was accepted is a `return nil, err`, and the deferred function
\* calls stream.Close() on the nil stream and panics.  The stream is not
\* closed and no error is returned.
srvDeferClose(err) == IF err # "nil" THEN "panic" ELSE "nil"

\* Server.handshake ends on `return ..., err` with the stream in state n,
\* after the deferred function was registered.  pc "failed" is a handshake
\* that ended without a stream, and err is what came out of it: the error it
\* returned (the failure of AcceptStream only), or "panic".
SrvReturn(c, err, n) ==
  /\ hs' = [hs EXCEPT ![c].pc = IF err = "nil" THEN "done" ELSE "failed",
                      ![c].err = srvDeferClose(err),
                      ![c].rd = <<>>]
  /\ net' = [net EXCEPT ![c] = n]

\* a switch without the default case
srvDispatchNoDefault(pld) == IF pld = PldLogin THEN "login" ELSE "ack"

\* session.go:243-295: the switch on the payload
srvDispatch(pld) ==
  IF pld = PldAck THEN "ack" ELSE IF pld = PldLogin THEN "login" ELSE "other"

\* a login case that does not test has
srvLoginNextAlwaysOk(has) == "sendok"

\* session.go:281-293: what follows HasToken's answer
srvLoginNext(has) == IF has THEN "sendok" ELSE "sendno"

\* session.go:269: the token the login is checked with
srvLoginToken(hdr, pld) == Token(hdr)

SrvCanWrite(c) == net[c].opened /\ ~net[c].sfin /\ ~ConnClosed(c)

\* a read of the server's fails: the client's side ended short of what the
\* read needs, or the connection is closed
SrvReadEnds(c, ready) == (~ready /\ net[c].cfin) \/ ConnClosed(c)

\* the server's context was cancelled
CtxDone == mgr.ctx = "cancelled"

\* session.go:219-222: conn.AcceptStream.  A stream that has arrived is
\* handed out whatever the context is; the cancelled context ends the wait
\* for a stream that has not arrived, which a stream the peer has opened may
\* not have yet.
SrvAccept(c) ==
  /\ mgr.up
  /\ hs[c].kind = "server" /\ hs[c].pc = "accept"
  /\ \/ /\ net[c].opened /\ ~ConnClosed(c)
        /\ hs' = [hs EXCEPT ![c].pc = "rcv", ![c].stream = TRUE]
     \/ /\ env.faulty \/ ConnClosed(c) \/ CtxDone
        /\ hs' = [hs EXCEPT ![c].pc = "failed", ![c].err = "io"]
  /\ UNCHANGED <<env, repo, mgr, stop, cli, net, task, sess, closeCalls>>

\* session.go:231-243: msg.Rcv, ReadFull and the switch.  The server is in
\* msg.Rcv (session.go:232) while rd holds less than a header, and in
\* ReadFull (session.go:238) from then on.
SrvRecv(c) ==
  /\ mgr.up
  /\ hs[c].kind = "server" /\ hs[c].pc = "rcv"
  /\ LET buf == hs[c].rd \o net[c].c2s IN
     \/ /\ FrameReady(buf) /\ ~ConnClosed(c) /\ ~rcvAtEOF(buf, net[c].cfin)
        /\ hs' = [hs EXCEPT ![c].pc = srvDispatch(ReadFull(buf)),
                            ![c].hdr = RcvHdr(buf),
                            ![c].pld = ReadFull(buf),
                            ![c].rd = <<>>,
                            ![c].rcvd = @ + 1]
        /\ net' = [net EXCEPT ![c].c2s = AfterFrame(buf)]
     \/ /\ ~FrameReady(buf) /\ net[c].c2s # <<>>
        /\ ~ConnClosed(c) /\ ~net[c].cfin
        /\ hs' = [hs EXCEPT ![c].rd = buf]
        /\ net' = [net EXCEPT ![c].c2s = <<>>]
     \/ /\ \/ env.faulty \/ SrvReadEnds(c, FrameReady(buf))
           \/ rcvAtEOF(buf, net[c].cfin)
        /\ SrvReturn(c, "io",
             [net[c] EXCEPT !.c2s = readFailLeaves(hs[c].rd, @, net[c].cfin,
                                                   ConnClosed(c))])
  /\ UNCHANGED <<env, repo, mgr, stop, cli, task, sess, closeCalls>>

\* an ack case that sends the token without SaveToken
SrvMintUnsaved(c) ==
  /\ mgr.up
  /\ hs[c].kind = "server" /\ hs[c].pc = "ack"
  /\ \E tok \in Tokens :
       hs' = [hs EXCEPT ![c].pc = "sendtok", ![c].tok = tok]
  /\ UNCHANGED <<env, repo, mgr, stop, cli, net, task, sess, closeCalls>>

\* session.go:244-254: mint a token and save it
SrvMint(c) ==
  /\ mgr.up
  /\ hs[c].kind = "server" /\ hs[c].pc = "ack"
  /\ \/ /\ \E tok \in Tokens :
             /\ repo' = SaveToken(repo, tok)
             /\ hs' = [hs EXCEPT ![c].pc = "sendtok", ![c].tok = tok,
                                 ![c].saved = @ \cup {tok}]
        /\ UNCHANGED net
     \/ /\ env.faulty            \* rand.Read or SaveToken fails
        /\ SrvReturn(c, "io", net[c])
        /\ UNCHANGED repo
  /\ UNCHANGED <<env, mgr, stop, cli, task, sess, closeCalls>>

\* a response of the server's handshake: sent whole, or the write fails
SrvRespond(c, pld, next, cnt) ==
  \E id \in MsgIDs, ms \in Timestamps :
    LET frame == WriteBytes(CtlMsg(id, ms), pld) IN
    \/ /\ SrvCanWrite(c)
       /\ net' = [net EXCEPT ![c].s2c = @ \o frame]
       /\ hs' = [hs EXCEPT ![c].pc = next, ![c].last = pld,
                           ![c].noes = @ + cnt, ![c].resp = @ + 1,
                           ![c].sentToks =
                             IF hs[c].pc = "sendtok" THEN @ \cup {pld} ELSE @]
    \/ /\ env.faulty \/ ~SrvCanWrite(c)
       /\ \E part \in Partial(frame) :
            SrvReturn(c, "io",
              [net[c] EXCEPT !.s2c = IF SrvCanWrite(c) THEN @ \o part ELSE @])

\* session.go:256-264 and 307: send the token, then wait again
SrvSendTok(c) ==
  /\ mgr.up
  /\ hs[c].kind = "server" /\ hs[c].pc = "sendtok"
  /\ SrvRespond(c, hs[c].tok, "rcv", 0)
  /\ UNCHANGED <<env, repo, mgr, stop, cli, task, sess, closeCalls>>

\* session.go:266-280: the token of the header is checked with HasToken
SrvCheck(c) ==
  /\ mgr.up
  /\ hs[c].kind = "server" /\ hs[c].pc = "login"
  /\ \/ LET tok == srvLoginToken(hs[c].hdr, hs[c].pld)
            has == HasToken(repo, tok) IN
        /\ hs' = [hs EXCEPT ![c].pc = srvLoginNext(has), ![c].has = has,
                            ![c].checked = <<tok, has>>]
        /\ UNCHANGED net
     \/ /\ env.faulty            \* HasToken or msg.New fails
        /\ SrvReturn(c, "io", net[c])
  /\ UNCHANGED <<env, repo, mgr, stop, cli, task, sess, closeCalls>>

\* a server that waits for the next request without answering a login
\* with an unknown token
SrvSendNoSilent(c) ==
  /\ mgr.up
  /\ hs[c].kind = "server" /\ hs[c].pc = "sendno"
  /\ hs' = [hs EXCEPT ![c].pc = "rcv"]
  /\ UNCHANGED <<env, repo, mgr, stop, cli, net, task, sess, closeCalls>>

\* session.go:281-287: "no" to an unknown token, then wait again
SrvSendNo(c) ==
  /\ mgr.up
  /\ hs[c].kind = "server" /\ hs[c].pc = "sendno"
  /\ SrvRespond(c, PldNo, "rcv", 1)
  /\ UNCHANGED <<env, repo, mgr, stop, cli, task, sess, closeCalls>>

\* session.go:289-293: "ok", and the handshake returns the stream
SrvSendOk(c) ==
  /\ mgr.up
  /\ hs[c].kind = "server" /\ hs[c].pc = "sendok"
  /\ SrvRespond(c, PldOk, "done", 0)
  /\ UNCHANGED <<env, repo, mgr, stop, cli, task, sess, closeCalls>>

\* session.go:295-307: "no" to any other payload, then wait again
SrvReject(c) ==
  /\ mgr.up
  /\ hs[c].kind = "server" /\ hs[c].pc = "other"
  /\ SrvRespond(c, PldNo, "rcv", 1)
  /\ UNCHANGED <<env, repo, mgr, stop, cli, task, sess, closeCalls>>

(* --------------------------- the peers ------------------------------- *)
\* A peer that is not this repository's client: it opens the stream, sends
\* frames of its choosing without waiting for answers, and ends the stream.
RawHdr(tok) == SetToken(CtlMsg(Fill(16, 201), 16909060), tok)

RawFrames ==
  {WriteBytes(RawHdr(ZeroTok), PldAck), WriteBytes(RawHdr(ZeroTok), PldJunk)}
    \cup {WriteBytes(RawHdr(t), PldLogin) : t \in Tokens \cup {ZeroTok}}
    \cup {SetLen(RawHdr(ZeroTok), 5) \o PldJunk}
    \cup {WriteBytes(RawHdr(ZeroTok), <<>>)}

RawOpen(c) ==
  /\ cli[c].kind = "raw" /\ cli[c].pc = "idle" /\ ~ConnClosed(c)
  /\ cli' = [cli EXCEPT ![c].pc = "raw"]
  /\ net' = [net EXCEPT ![c].opened = TRUE]
  /\ UNCHANGED <<env, repo, mgr, stop, hs, task, sess, closeCalls>>

RawSend(c) ==
  /\ cli[c].kind = "raw" /\ cli[c].pc = "raw"
  /\ cli[c].sent < cli[c].budget /\ ~ConnClosed(c)
  /\ \E frame \in RawFrames :
       net' = [net EXCEPT ![c].c2s = @ \o frame]
  /\ cli' = [cli EXCEPT ![c].sent = @ + 1]
  /\ UNCHANGED <<env, repo, mgr, stop, hs, task, sess, closeCalls>>

RawFin(c) ==
  /\ cli[c].kind = "raw" /\ cli[c].pc = "raw"
  /\ cli' = [cli EXCEPT ![c].pc = "rawdone"]
  /\ net' = [net EXCEPT ![c].cfin = TRUE]
  /\ UNCHANGED <<env, repo, mgr, stop, hs, task, sess, closeCalls>>

\* A server that is not this repository's: it answers each request frame
\* with a frame of its choosing.
RawReplies == {PldNo, PldOk, PldJunk, <<>>} \cup Tokens

RawSrvReply(c) ==
  /\ hs[c].kind = "raw" /\ FrameReady(net[c].c2s) /\ ~net[c].sfin
  /\ \E pld \in RawReplies :
       net' = [net EXCEPT ![c].c2s = AfterFrame(@),
                          ![c].s2c = @ \o WriteBytes(RawHdr(ZeroTok), pld)]
  /\ hs' = [hs EXCEPT ![c].rcvd = @ + 1]
  /\ UNCHANGED <<env, repo, mgr, stop, cli, task, sess, closeCalls>>

RawSrvFin(c) ==
  /\ hs[c].kind = "raw" /\ net[c].opened /\ ~net[c].sfin
  /\ net' = [net EXCEPT ![c].sfin = TRUE]
  /\ UNCHANGED <<env, repo, mgr, stop, cli, hs, task, sess, closeCalls>>

(* ------------- server.go: the per-connection goroutine --------------- *)
\* a goroutine that calls the handler whatever NewSession returned
taskAfterNewSessionAnyway(err) == "handler"

\* server.go:163-167: a failed NewSession ends the task, a session goes to
\* the handler
taskAfterNewSession(err) == IF err # "nil" THEN "close" ELSE "handler"

\* a goroutine without the deferred recover()
taskAfterPanicUnrecovered == "crashed"

\* server.go:168-172: a panic of the handler is recovered, and the task goes
\* on to its deferred close
taskAfterPanic == "close"

\* server.go:163-174: NewSession(s.ctx, c) has returned.  NewSession runs the
\* handshake on the connection and wraps the authenticated stream.
\* A handshake that panicked did so on the connection's goroutine, inside
\* NewSession: the recover() of server.go:168-172 is not registered yet, the
\* goroutine unwinds into its deferred close (server.go:155-162), and the
\* panic is still on its way out.
TaskNewSession(c) ==
  /\ mgr.up
  /\ task[c].pc = "newsession" /\ hs[c].pc \in {"done", "failed"}
  /\ LET next == taskAfterNewSession(hs[c].err) IN
     /\ task' = [task EXCEPT ![c].pc = next,
                             ![c].calls = IF next = "handler" THEN @ + 1 ELSE @,
                             ![c].how = IF hs[c].err = "panic"
                                          THEN "unwinding" ELSE @]
     /\ sess' = [sess EXCEPT ![c].exists = (hs[c].err = "nil")]
  /\ UNCHANGED <<env, repo, mgr, stop, cli, hs, net, closeCalls>>

\* the handler calls s.Output(ctx): session.go:60-62 and 80
HandlerOutput(c) ==
  /\ mgr.up
  /\ task[c].pc = "handler" /\ sess[c].opc = "none"
  /\ sess' = [sess EXCEPT ![c].opc = "select"]
  /\ UNCHANGED <<env, repo, mgr, stop, cli, hs, net, task, closeCalls>>

\* the handler sends a chunk on the outbound channel
HandlerSend(c) ==
  /\ mgr.up
  /\ task[c].pc = "handler" /\ sess[c].opc # "none" /\ ~sess[c].outClosed
  /\ Len(sess[c].out) < chansz /\ Len(sess[c].put) < MaxChunks
  /\ sess' = [sess EXCEPT ![c].out = Append(@, PldHello),
                          ![c].put = Append(@, PldHello)]
  /\ UNCHANGED <<env, repo, mgr, stop, cli, hs, net, task, closeCalls>>

\* the i-th chunk of a caller that sends chunks unlike one another
OutChunk(i) == [j \in 1..i |-> 64 + i]

\* the caller sends its next chunk on the outbound channel
HandlerSendSeq(c) ==
  /\ mgr.up
  /\ task[c].pc = "handler" /\ sess[c].opc # "none" /\ ~sess[c].outClosed
  /\ Len(sess[c].out) < chansz /\ Len(sess[c].put) < MaxOutChunks
  /\ sess' = [sess EXCEPT ![c].out = Append(@, OutChunk(Len(sess[c].put) + 1)),
                          ![c].put = Append(@, OutChunk(Len(sess[c].put) + 1))]
  /\ UNCHANGED <<env, repo, mgr, stop, cli, hs, net, task, closeCalls>>

\* the handler closes the outbound channel
HandlerClose(c) ==
  /\ mgr.up
  /\ task[c].pc = "handler" /\ sess[c].opc # "none" /\ ~sess[c].outClosed
  /\ sess' = [sess EXCEPT ![c].outClosed = TRUE]
  /\ UNCHANGED <<env, repo, mgr, stop, cli, hs, net, task, closeCalls>>

\* server.go:174-175: the handler returns
HandlerReturn(c) ==
  /\ mgr.up
  /\ task[c].pc = "handler"
  /\ task' = [task EXCEPT ![c].pc = "close", ![c].how = "returned"]
  /\ UNCHANGED <<env, repo, mgr, stop, cli, hs, net, sess, closeCalls>>

\* server.go:168-172: the handler panics
HandlerPanic(c) ==
  /\ mgr.up
  /\ task[c].pc = "handler"
  /\ task' = [task EXCEPT ![c].pc = taskAfterPanic, ![c].how = "panicked"]
  /\ UNCHANGED <<env, repo, mgr, stop, cli, hs, net, sess, closeCalls>>

\* server.go:121-123 and 156-158: the deferred closeConn(c, codes.Done)
TaskClose(c) ==
  /\ mgr.up
  /\ task[c].pc = "close"
  /\ closeCalls' = [closeCalls EXCEPT ![c] = Append(@, Done)]
  /\ task' = [task EXCEPT ![c].pc = "lock"]
  /\ UNCHANGED <<env, repo, mgr, stop, cli, hs, net, sess>>

\* a task that goes on to the delete without taking the mutex
TaskLockNone(c) ==
  /\ mgr.up
  /\ task[c].pc = "lock"
  /\ task' = [task EXCEPT ![c].pc = "delete"]
  /\ UNCHANGED <<env, repo, mgr, stop, cli, hs, net, sess, closeCalls>>

\* server.go:159
TaskLock(c) ==
  /\ mgr.up
  /\ task[c].pc = "lock" /\ mgr.mtx = "free"
  /\ mgr' = [mgr EXCEPT !.mtx = "task"]
  /\ task' = [task EXCEPT ![c].pc = "delete"]
  /\ UNCHANGED <<env, repo, stop, cli, hs, net, sess, closeCalls>>

\* server.go:160-161
TaskDelete(c) ==
  /\ mgr.up
  /\ task[c].pc = "delete"
  /\ mgr' = [mgr EXCEPT !.conns = @ \ {c}, !.mtx = "free"]
  /\ task' = [task EXCEPT ![c].pc = "exit"]
  /\ UNCHANGED <<env, repo, stop, cli, hs, net, sess, closeCalls>>

\* server.go:155-162: the deferred function of a goroutine that unwinds
\* from a panic has returned, nothing recovered the panic, and the Go
\* runtime ends the process: serve, every call of Stop or Shutdown, every
\* connection's goroutine and every session's goroutine stay where they are
\* and take no further step.
TaskCrash(c) ==
  /\ mgr.up
  /\ task[c].pc = "exit" /\ task[c].how = "unwinding"
  /\ mgr' = [mgr EXCEPT !.up = FALSE]
  /\ UNCHANGED <<env, repo, stop, cli, hs, net, task, sess, closeCalls>>

(* --------------------- session.go: Session.Output -------------------- *)
\* the stream's own context is done: its send side or its connection closed
StreamDone(c) == net[c].sfin \/ ConnClosed(c)

\* a writer task that returns without closing the stream
OutExitNoClose(c, s) ==
  /\ sess' = [sess EXCEPT ![c] = [s EXCEPT !.opc = "exited"]]
  /\ UNCHANGED net

\* session.go:63: the deferred stream.Close() of the writer task
OutExit(c, s) ==
  /\ sess' = [sess EXCEPT ![c] = [s EXCEPT !.opc = "exited",
                                           !.closes = @ + 1]]
  /\ net' = [net EXCEPT ![c].sfin = TRUE]

\* session.go:66-69: one of the two cancellations fired
OutCancelled(c) ==
  /\ mgr.up
  /\ sess[c].opc = "select" /\ (CtxDone \/ StreamDone(c))
  /\ OutExit(c, sess[c])
  /\ UNCHANGED <<env, repo, mgr, stop, cli, hs, task, closeCalls>>

\* a receive that takes the chunk sent last
outRecvLast(q) == [buf |-> q[Len(q)], rest |-> SubSeq(q, 1, Len(q) - 1)]

\* session.go:70: buf, ok := <-ch takes the chunk sent first
outRecv(q) == [buf |-> Head(q), rest |-> Tail(q)]

\* session.go:70-73: a chunk is received, or the channel is closed and empty
OutTake(c) ==
  /\ mgr.up
  /\ sess[c].opc = "select"
  /\ \/ /\ sess[c].out # <<>>
        /\ sess' = [sess EXCEPT ![c].opc = "write",
                                ![c].buf = outRecv(sess[c].out).buf,
                                ![c].out = outRecv(sess[c].out).rest]
        /\ UNCHANGED net
     \/ /\ sess[c].out = <<>> /\ sess[c].outClosed
        /\ OutExit(c, sess[c])
  /\ UNCHANGED <<env, repo, mgr, stop, cli, hs, task, closeCalls>>

\* an Output that wraps each chunk in a Text message
outBytesFramed(buf) ==
  WriteBytes(SetType(New(Fill(16, 201), 16909060), TypeText), buf)

\* session.go:74: the bytes s.stream.Write(buf) puts on the stream
outBytes(buf) == buf

\* session.go:74-76: the chunk is written to the stream as it is
OutWrite(c) ==
  /\ mgr.up
  /\ sess[c].opc = "write"
  /\ \/ /\ SrvCanWrite(c)
        /\ net' = [net EXCEPT ![c].s2c = @ \o outBytes(sess[c].buf)]
        /\ sess' = [sess EXCEPT ![c].opc = "select",
                                ![c].wrote = Append(@, sess[c].buf)]
     \/ /\ env.faulty \/ ~SrvCanWrite(c)
        /\ OutExit(c, sess[c])
  /\ UNCHANGED <<env, repo, mgr, stop, cli, hs, task, closeCalls>>

(* ---------------------- session.go: Session.Input -------------------- *)
\* The reader's buffer buf is kept as the bytes written into it so far
\* (ibuf); a chunk is either a copy of bytes or a slice of buf, and Bytes
\* gives what its holder sees.  reads is the sequence of chunks stream.Read
\* has returned, got the chunks the consumer has received, and late counts
\* the chunks enqueued when a cancellation had already fired.

\* a chunk that is the slice buf[:n] itself
inChunkAliased(buf, n) == [ref |-> TRUE, n |-> n, val |-> <<>>]

\* session.go:52: append([]byte(nil), buf[:n]...)
inChunk(buf, n) == [ref |-> FALSE, n |-> n, val |-> SubSeq(buf, 1, n)]

\* the bytes the holder of chunk ch sees when the buffer holds buf
Bytes(ch, buf) == IF ch.ref THEN SubSeq(buf, 1, ch.n) ELSE ch.val

\* copy(buf, data) into a buffer of which ibuf is the part written so far
InFill(ibuf, data) ==
  IF Len(data) >= Len(ibuf) THEN data ELSE data \o Drop(ibuf, Len(data))

\* a channel with one more slot than chansz
inRoomOneMore(q) == Len(q) <= chansz

\* session.go:38: make(chan []byte, chansz); a send can proceed
inRoom(q) == Len(q) < chansz

\* the handler calls s.Input(ctx): session.go:37-40 and 56
HandlerInput(c) ==
  /\ mgr.up
  /\ task[c].pc = "handler" /\ sess[c].exists /\ sess[c].ipc = "none"
  /\ sess' = [sess EXCEPT ![c].ipc = "read"]
  /\ UNCHANGED <<env, repo, mgr, stop, cli, hs, net, task, closeCalls>>

\* session.go:41: the deferred close(ch) of the reader task
InExit(c, s) ==
  sess' = [sess EXCEPT ![c] = [s EXCEPT !.ipc = "exited", !.held = <<>>,
                                        !.inClosed = TRUE,
                                        !.icloses = @ + 1]]

\* session.go:43-46: one s.stream.Read(buf).  It returns the next n bytes;
\* when these are the last before a FIN already received it returns them
\* together with io.EOF, and the reader returns without sending them.  With
\* nothing to read it fails at the end of the stream, and it fails when the
\* connection is closed or the transport fails.  The send expression of the
\* select (session.go:52) is evaluated when the select is entered.
InRead(c) ==
  /\ mgr.up
  /\ sess[c].ipc = "read"
  /\ LET data == net[c].c2s IN
     \/ /\ data # <<>> /\ ~ConnClosed(c)
        /\ \E n \in 1..Len(data) :
             /\ n <= MaxRead /\ n <= buflen
             /\ LET buf == InFill(sess[c].ibuf, SubSeq(data, 1, n))
                    s == [sess[c] EXCEPT
                            !.ibuf = buf,
                            !.reads = Append(@, SubSeq(data, 1, n))]
                IN  /\ net' = [net EXCEPT ![c].c2s = Drop(data, n)]
                    /\ IF n = Len(data) /\ net[c].cfin
                         THEN InExit(c, s)
                         ELSE sess' = [sess EXCEPT ![c] =
                                         [s EXCEPT !.ipc = "select",
                                                   !.held = <<inChunk(buf, n)>>]]
     \/ /\ env.faulty \/ ConnClosed(c) \/ (data = <<>> /\ net[c].cfin)
        /\ InExit(c, sess[c])
        /\ UNCHANGED net
  /\ UNCHANGED <<env, repo, mgr, stop, cli, hs, task, closeCalls>>

\* session.go:48-51: one of the two cancellations is chosen by the select
InCancelled(c) ==
  /\ mgr.up
  /\ sess[c].ipc = "select" /\ (CtxDone \/ StreamDone(c))
  /\ InExit(c, sess[c])
  /\ UNCHANGED <<env, repo, mgr, stop, cli, hs, net, task, closeCalls>>

\* session.go:52: the send is chosen by the select; a select with several
\* ready cases takes any of them
InSend(c) ==
  /\ mgr.up
  /\ sess[c].ipc = "select" /\ inRoom(sess[c].inq)
  /\ sess' = [sess EXCEPT
                ![c].ipc = "read", ![c].held = <<>>,
                ![c].inq = @ \o sess[c].held,
                ![c].late = IF CtxDone \/ StreamDone(c) THEN @ + 1 ELSE @]
  /\ UNCHANGED <<env, repo, mgr, stop, cli, hs, net, task, closeCalls>>

\* the handler receives from the inbound channel (msg := <-in): the oldest
\* chunk, or, from a channel that is closed and empty, nil at once and as
\* often as it asks; nils counts these receives
HandlerRecv(c) ==
  /\ mgr.up
  /\ task[c].pc = "handler"
  /\ \/ /\ sess[c].inq # <<>>
        /\ sess' = [sess EXCEPT ![c].got = Append(@, Head(sess[c].inq)),
                                ![c].inq = Tail(@)]
     \/ /\ sess[c].inq = <<>> /\ sess[c].inClosed /\ sess[c].nils < MaxNils
        /\ sess' = [sess EXCEPT ![c].nils = @ + 1]
  /\ UNCHANGED <<env, repo, mgr, stop, cli, hs, net, task, closeCalls>>

(* ------------------- client.go: Client.handleConn --------------------- *)
\* After the handshake handleConn starts two goroutines and waits for the
\* first of them to end or for the caller's context.  recv is what the
\* reader has printed, lost the bytes of a read it discarded, lines the
\* number of lines the writer has written.

\* client.go:160-176: one stream.Read of the reader goroutine.  The error is
\* looked at before buf[:n]: a read that returns the last bytes together
\* with io.EOF ends the goroutine and the bytes are not printed.  The read
\* fails when the stream has ended, the connection is closed or the
\* transport fails.
CliRead(c) ==
  /\ cli[c].kind = "client" /\ cli[c].pc = "done" /\ cli[c].reader # "ended"
  /\ LET buf == net[c].s2c IN
     \/ /\ buf # <<>> /\ ~ConnClosed(c)
        /\ \E n \in 1..Len(buf) :
             /\ n <= buflen
             /\ net' = [net EXCEPT ![c].s2c = Drop(buf, n)]
             /\ IF n = Len(buf) /\ net[c].sfin
                  THEN cli' = [cli EXCEPT ![c].lost = SubSeq(buf, 1, n),
                                          ![c].reader = "ended"]
                  ELSE cli' = [cli EXCEPT ![c].recv = @ \o SubSeq(buf, 1, n),
                                          ![c].reader = "reading"]
     \/ /\ env.faulty \/ CliReadEnds(c, buf # <<>>)
        /\ cli' = [cli EXCEPT ![c].reader = "ended"]
        /\ UNCHANGED net
  /\ UNCHANGED <<env, repo, mgr, stop, hs, task, sess, closeCalls>>

\* the lines rl.ReadSlice can return, cut down to one
CliLines == {PldJunk}

\* client.go:140-157: one turn of the writer goroutine.  rl.ReadSlice
\* returns a line and stream.Write sends it as it is, or one of the two
\* fails and the goroutine ends; a failed write may have sent a part.
CliWrite(c) ==
  /\ cli[c].kind = "client" /\ cli[c].pc = "done" /\ cli[c].writer # "ended"
  /\ \/ /\ cli[c].lines < MaxLines /\ CliCanWrite(c)
        /\ \E input \in CliLines :
             net' = [net EXCEPT ![c].c2s = @ \o input]
        /\ cli' = [cli EXCEPT ![c].lines = @ + 1, ![c].writer = "writing"]
     \/ /\ cli[c].lines < MaxLines /\ (env.faulty \/ ~CliCanWrite(c))
        /\ \E input \in CliLines : \E k \in 0..(Len(input) - 1) :
             net' = [net EXCEPT ![c].c2s =
                       IF CliCanWrite(c) THEN @ \o SubSeq(input, 1, k) ELSE @]
        /\ cli' = [cli EXCEPT ![c].lines = @ + 1, ![c].writer = "ended"]
     \/ /\ cli' = [cli EXCEPT ![c].writer = "ended"]   \* ReadSlice fails
        /\ UNCHANGED net
  /\ UNCHANGED <<env, repo, mgr, stop, hs, task, sess, closeCalls>>

\* client.go:178-183 and 130: handleConn returns when a goroutine has sent
\* on errCh or when the caller's context is done, which can be at any
\* moment; the deferred stream.Close() ends the client's side of the stream.
\* The goroutines go on until their next failure.
CliHandleConnReturn(c) ==
  /\ cli[c].kind = "client" /\ cli[c].pc = "done" /\ ~cli[c].returned
  /\ \E cancelled \in BOOLEAN :
       cancelled \/ cli[c].reader = "ended" \/ cli[c].writer = "ended"
  /\ cli' = [cli EXCEPT ![c].returned = TRUE]
  /\ net' = [net EXCEPT ![c].cfin = TRUE, ![c].cclosed = TRUE]
  /\ UNCHANGED <<env, repo, mgr, stop, hs, task, sess, closeCalls>>

(* ------------- one connection, from handshake to session -------------- *)
\* the token files a client can start with: none, two malformed ones, and
\* 16-byte tokens the server may or may not know
Caches == {<<>>, <<9, 9, 9>>, Fill(17, 9)} \cup Tokens

\* the pairings of the two ends of connection 1
Pairings ==
  {<<"client", "server">>, <<"raw", "server">>, <<"client", "raw">>}

\* Connection 1 has been accepted and tracked, and its task has been started
\* (server.go:149-154); nobody has opened the stream yet.  What the client
\* does with the stream once its handshake has returned is followed in
\* SpecConn.
Init ==
  /\ repo \in {{}, {TokenOf(1)}}
  /\ env \in [faulty : BOOLEAN, lnrFaulty : {FALSE}, repo0 : {repo},
             badConns : {{}}, lnrBad : {FALSE}]
  /\ mgr = [mgr0 EXCEPT !.conns = {1}, !.sessionsWG = 1, !.next = 2]
  /\ stop = [k \in StopCallers |-> stop0]
  /\ \E pr \in Pairings, cache \in Caches :
       /\ cli = [c \in Conns |->
                   IF c = 1
                     THEN [cli0 EXCEPT !.kind = pr[1],
                                       !.cache = IF pr[1] = "client"
                                                   THEN cache ELSE <<>>,
                                       !.cache0 = IF pr[1] = "client"
                                                    THEN cache ELSE <<>>,
                                       !.budget = MaxPeerFrames]
                     ELSE cli0]
       /\ hs = [c \in Conns |->
                  IF c = 1
                    THEN [hs0 EXCEPT !.kind = pr[2],
                                     !.pc = IF pr[2] = "server"
                                              THEN "accept" ELSE "raw"]
                    ELSE hs0]
       /\ task = [c \in Conns |->
                    IF c = 1 /\ pr[2] = "server"
                      THEN [task0 EXCEPT !.pc = "newsession"]
                      ELSE task0]
  /\ net = [c \in Conns |-> net0]
  /\ sess = [c \in Conns |-> sess0]
  /\ closeCalls = [c \in Conns |-> <<>>]

Next ==
  \/ CliOpen(1) \/ CliToken(1) \/ CliRecvToken(1) \/ CliLogin(1)
  \/ CliRecvResp(1)
  \/ RawOpen(1) \/ RawSend(1) \/ RawFin(1)
  \/ RawSrvReply(1) \/ RawSrvFin(1)
  \/ SrvAccept(1) \/ SrvRecv(1) \/ SrvMint(1) \/ SrvSendTok(1)
  \/ SrvCheck(1) \/ SrvSendNo(1) \/ SrvSendOk(1) \/ SrvReject(1)
  \/ TaskNewSession(1)
  \/ HandlerOutput(1) \/ HandlerSend(1) \/ HandlerClose(1)
  \/ HandlerReturn(1) \/ HandlerPanic(1)
  \/ TaskClose(1) \/ TaskLock(1) \/ TaskDelete(1) \/ TaskCrash(1)
  \/ OutCancelled(1) \/ OutTake(1) \/ OutWrite(1)

Spec == Init /\ [][Next]_vars

(* ------- Client.handshake against Server.handshake, on their own ------ *)
\* The two handshake functions run over one stream of a connection that
\* nothing else touches.  Client.handshake runs on the goroutine of Dial,
\* Server.handshake on the connection's goroutine: each keeps running while
\* it can take a step.
HsInit == Init /\ cli[1].kind = "client" /\ hs[1].kind = "server"

CliStep ==
  CliOpen(1) \/ CliToken(1) \/ CliRecvToken(1) \/ CliLogin(1) \/ CliRecvResp(1)

SrvStep ==
  \/ SrvAccept(1) \/ SrvRecv(1) \/ SrvMint(1) \/ SrvSendTok(1)
  \/ SrvCheck(1) \/ SrvSendNo(1) \/ SrvSendOk(1)

HsNext == CliStep \/ SrvStep

LiveSpec ==
  HsInit /\ [][HsNext]_vars /\ WF_vars(CliStep) /\ WF_vars(SrvStep)

(* -------- Client.handleConn against the server's connection task ------ *)
\* This repository's client against this repository's server, from the
\* handshake on: the client's handleConn with its two goroutines, and on the
\* server the connection's task, the handler and the session's writer task.
\* Nobody on the server reads what the client writes after the handshake.
ConnStep1 ==
  \/ TaskNewSession(1)
  \/ HandlerOutput(1) \/ HandlerSend(1) \/ HandlerClose(1)
  \/ HandlerReturn(1) \/ HandlerPanic(1)
  \/ TaskClose(1) \/ TaskLock(1) \/ TaskDelete(1) \/ TaskCrash(1)
  \/ OutCancelled(1) \/ OutTake(1) \/ OutWrite(1)

\* the server never answers "no" to a token it has just minted and saved, so
\* SrvSendNo is not among the steps
ConnNext ==
  \/ CliStep
  \/ SrvAccept(1) \/ SrvRecv(1) \/ SrvMint(1) \/ SrvSendTok(1)
  \/ SrvCheck(1) \/ SrvSendOk(1)
  \/ CliRead(1) \/ CliWrite(1) \/ CliHandleConnReturn(1)
  \/ ConnStep1

\* the client starts with no token file
ConnInit == HsInit /\ cli[1].cache0 = <<>>

SpecConn == ConnInit /\ [][ConnNext]_vars

(* ----------------------- the dialing peers --------------------------- *)
\* What the peer of a connection has done on it by the time Accept hands
\* the connection out: nothing, a login with a token the repository holds,
\* or a frame that is no request followed by the end of its stream.
DialScripts ==
  {[opened |-> FALSE, bytes |-> <<>>, fin |-> FALSE],
   [opened |-> TRUE, bytes |-> WriteBytes(RawHdr(TokenOf(1)), PldLogin),
    fin |-> FALSE],
   [opened |-> TRUE, bytes |-> WriteBytes(RawHdr(ZeroTok), PldJunk),
    fin |-> TRUE]}

PeerDial(c) ==
  /\ \E sc \in DialScripts :
       net' = [net EXCEPT ![c].opened = sc.opened, ![c].c2s = sc.bytes,
                          ![c].cfin = sc.fin]
  /\ cli' = [cli EXCEPT ![c].pc = "rawdone"]

(* ------------------ server.go: the accept loop of serve --------------- *)
\* the listener has a connection to hand out: the peers that ever dial are
\* numbered, and connection mgr.next is the next one to arrive
ConnWaiting == mgr.next <= MaxConns

\* server.go:133 and 140: lnr.Accept returned a connection.  Accept selects
\* between the queue of connections, the context and the listener's close,
\* so a queued connection can be returned after either of the other two.
AcceptConn ==
  /\ mgr.up
  /\ mgr.apc = "accept" /\ ConnWaiting
  /\ mgr' = [mgr EXCEPT !.apc = "check", !.cur = mgr.next, !.next = @ + 1]
  /\ PeerDial(mgr.next)
  /\ UNCHANGED <<env, repo, stop, hs, task, sess, closeCalls>>

\* server.go:135-137: the listener was closed, Accept returned
\* quic.ErrServerClosed and serve returns nil
AcceptClosed ==
  /\ mgr.up
  /\ mgr.apc = "accept" /\ mgr.lnr = "closed"
  /\ mgr' = [mgr EXCEPT !.apc = "defer", !.ret = "nil"]
  /\ UNCHANGED <<env, repo, stop, cli, hs, net, task, sess, closeCalls>>

\* server.go:138: Accept returned another error, the context's when it was
\* cancelled or the transport's; serve calls s.Stop()
AcceptFailed ==
  /\ mgr.up
  /\ mgr.apc = "accept" /\ (CtxDone \/ env.lnrFaulty)
  /\ stop["serve"].pc = "idle"
  /\ mgr' = [mgr EXCEPT !.apc = "stopping", !.ret = "accept"]
  /\ stop' = [stop EXCEPT !["serve"].pc = "cancel"]
  /\ UNCHANGED <<env, repo, cli, hs, net, task, sess, closeCalls>>

\* server.go:138: s.Stop() returned and serve returns the joined error
AcceptStopped ==
  /\ mgr.up
  /\ mgr.apc = "stopping" /\ stop["serve"].pc = "returned"
  /\ mgr' = [mgr EXCEPT !.apc = "defer"]
  /\ UNCHANGED <<env, repo, stop, cli, hs, net, task, sess, closeCalls>>

\* server.go:143-147: the context is done and serve returns nil; the
\* connection in hand is neither tracked nor closed
AcceptCheck ==
  /\ mgr.up
  /\ mgr.apc = "check"
  /\ mgr' = IF CtxDone
              THEN [mgr EXCEPT !.apc = "defer", !.ret = "nil",
                               !.dropped = @ \cup {mgr.cur}]
              ELSE [mgr EXCEPT !.apc = "lock"]
  /\ UNCHANGED <<env, repo, stop, cli, hs, net, task, sess, closeCalls>>

\* server.go:149
AcceptLock ==
  /\ mgr.up
  /\ mgr.apc = "lock" /\ mgr.mtx = "free"
  /\ mgr' = [mgr EXCEPT !.apc = "add", !.mtx = "serve"]
  /\ UNCHANGED <<env, repo, stop, cli, hs, net, task, sess, closeCalls>>

\* server.go:150-151
AcceptAdd ==
  /\ mgr.up
  /\ mgr.apc = "add"
  /\ mgr' = [mgr EXCEPT !.apc = "spawn", !.conns = @ \cup {mgr.cur},
                        !.mtx = "free"]
  /\ UNCHANGED <<env, repo, stop, cli, hs, net, task, sess, closeCalls>>

\* server.go:153-154 and 176: the WaitGroup is incremented, the goroutine
\* of the connection is started and the loop goes back to Accept
AcceptSpawn ==
  /\ mgr.up
  /\ mgr.apc = "spawn"
  /\ mgr' = [mgr EXCEPT !.apc = "accept", !.sessionsWG = @ + 1]
  /\ task' = [task EXCEPT ![mgr.cur].pc = "newsession"]
  /\ hs' = [hs EXCEPT ![mgr.cur].pc = "accept"]
  /\ UNCHANGED <<env, repo, stop, cli, net, sess, closeCalls>>

(* ------------------------ server.go: Server.Stop ---------------------- *)
\* server.go:121-123: what closeConn returns for connection c; whether the
\* transport's close fails is the environment's
closeConnErr(c) == IF c \in env.badConns THEN "err" ELSE "nil"

\* server.go:186 and 209: what s.lnr.Close() returns
lnrCloseErr == IF env.lnrBad THEN "err" ELSE "nil"

\* server.go:127-129: errors.Join(err, fmt.Errorf("close listener: ...")),
\* when the close of the listener failed
serveDeferErr(err, cerr) ==
  IF cerr = "nil" THEN err
  ELSE IF err = "nil" THEN "closelistener" ELSE "accept+closelistener"

\* server.go:126-130: the deferred s.lnr.Close() of serve
ServeDefer ==
  /\ mgr.up
  /\ mgr.apc = "defer"
  /\ mgr' = [mgr EXCEPT !.apc = "returned", !.lnr = "closed",
                        !.ret = serveDeferErr(mgr.ret, lnrCloseErr)]
  /\ UNCHANGED <<env, repo, stop, cli, hs, net, task, sess, closeCalls>>

\* a join that gives up after the first error
JoinFirst(errs) ==
  LET all == SelectSeq(errs, LAMBDA e : e # "nil")
  IN  IF all = <<>> THEN <<>> ELSE <<Head(all)>>

\* server.go:203 and 237: errors.Join drops the nil errors and is nil (the
\* empty sequence) when none is left
Join(errs) == SelectSeq(errs, LAMBDA e : e # "nil")

\* server.go:185: the first statement of Stop(), called by the application
\* at any time of its choosing, or by serve after a failed Accept
\* Before Run has set s.cancel it is nil, and calling it panics.
StopCancel(k) ==
  /\ mgr.up
  /\ stop[k].pc = "cancel"
  /\ IF mgr.ctx = "nil"
       THEN /\ stop' = [stop EXCEPT ![k].pc = "panicked"]
            /\ UNCHANGED mgr
       ELSE /\ mgr' = [mgr EXCEPT !.ctx = "cancelled"]
            /\ stop' = [stop EXCEPT ![k].pc = "closelnr"]
  /\ UNCHANGED <<env, repo, cli, hs, net, task, sess, closeCalls>>

\* server.go:186
StopCloseLnr(k) ==
  /\ mgr.up
  /\ stop[k].pc = "closelnr"
  /\ mgr' = [mgr EXCEPT !.lnr = "closed"]
  /\ stop' = [stop EXCEPT ![k].pc = "lock", ![k].cerr = lnrCloseErr]
  /\ UNCHANGED <<env, repo, cli, hs, net, task, sess, closeCalls>>

\* server.go:188
StopLock(k) ==
  /\ mgr.up
  /\ stop[k].pc = "lock" /\ mgr.mtx = "free"
  /\ mgr' = [mgr EXCEPT !.mtx = k]
  /\ stop' = [stop EXCEPT ![k].pc = "take"]
  /\ UNCHANGED <<env, repo, cli, hs, net, task, sess, closeCalls>>

\* a Stop() that empties s.conns without copying it first
stopSnapshotNone(conns) == {}

\* server.go:189-193: the connections Stop copies out of s.conns
stopSnapshot(conns) == conns

\* server.go:189-194: the set is copied and replaced by an empty one, and
\* the lock is released
StopTake(k) ==
  /\ mgr.up
  /\ stop[k].pc = "take"
  /\ stop' = [stop EXCEPT ![k].pc = "close",
                          ![k].took = stopSnapshot(mgr.conns),
                          ![k].left = stopSnapshot(mgr.conns)]
  /\ mgr' = [mgr EXCEPT !.conns = {}, !.mtx = "free"]
  /\ UNCHANGED <<env, repo, cli, hs, net, task, sess, closeCalls>>

\* server.go:197-202: closeConn(conn, codes.StopServer) for one connection
\* of the copy; the copy was filled in the map's iteration order
StopCloseConn(k) ==
  /\ mgr.up
  /\ stop[k].pc = "close"
  /\ \E c \in stop[k].left :
       /\ closeCalls' = [closeCalls EXCEPT ![c] = Append(@, StopServer)]
       /\ stop' = [stop EXCEPT ![k].left = @ \ {c},
                               ![k].errs = Append(@, closeConnErr(c))]
  /\ UNCHANGED <<env, repo, mgr, cli, hs, net, task, sess>>

\* server.go:203
StopReturn(k) ==
  /\ mgr.up
  /\ stop[k].pc = "close" /\ stop[k].left = {}
  /\ stop' = [stop EXCEPT ![k].pc = "returned",
                          ![k].ret = Join(<<stop[k].cerr>> \o stop[k].errs)]
  /\ UNCHANGED <<env, repo, mgr, cli, hs, net, task, sess, closeCalls>>

(* ------------------- the server with its connections ------------------ *)
\* Run has stored the listener and the context (server.go:113-116) and
\* serve is about to call Accept; the repository holds one token.
SrvInit ==
  /\ repo = {TokenOf(1)}
  /\ env \in [faulty : {FALSE}, lnrFaulty : BOOLEAN, repo0 : {repo},
             badConns : {{}}, lnrBad : BOOLEAN]
  /\ mgr = mgr0
  /\ stop = [k \in StopCallers |->
               IF k = "user" THEN [stop0 EXCEPT !.pc = "cancel"] ELSE stop0]
  /\ cli = [c \in Conns |-> [cli0 EXCEPT !.kind = "dialer"]]
  /\ hs = [c \in Conns |-> hs0]
  /\ net = [c \in Conns |-> net0]
  /\ task = [c \in Conns |-> task0]
  /\ sess = [c \in Conns |-> sess0]
  /\ closeCalls = [c \in Conns |-> <<>>]

ServeStep ==
  \/ AcceptConn \/ AcceptClosed \/ AcceptFailed \/ AcceptStopped
  \/ AcceptCheck \/ AcceptLock \/ AcceptAdd \/ AcceptSpawn \/ ServeDefer

StopStep(k) ==
  \/ StopCancel(k) \/ StopCloseLnr(k) \/ StopLock(k) \/ StopTake(k)
  \/ StopCloseConn(k) \/ StopReturn(k)

ConnStep(c) ==
  \/ SrvAccept(c) \/ SrvRecv(c) \/ SrvCheck(c) \/ SrvSendOk(c)
  \/ SrvReject(c)
  \/ TaskNewSession(c) \/ HandlerReturn(c) \/ HandlerPanic(c)
  \/ TaskClose(c) \/ TaskLock(c) \/ TaskDelete(c) \/ TaskCrash(c)

SrvNext ==
  \/ ServeStep
  \/ \E k \in StopCallers : StopStep(k)
  \/ \E c \in Conns : ConnStep(c)

SpecSrv == SrvInit /\ [][SrvNext]_vars

(* ---------------------- server.go: Server.Shutdown -------------------- *)
\* the locals of a Shutdown call: those of Stop, and its ctx argument, whose
\* Done() is the deadline
shut0 ==
  [pc |-> "cancel", left |-> {}, took |-> {}, cerr |-> "nil", errs |-> <<>>,
   ret |-> <<>>, ctx |-> "live"]

\* the calls that can be in progress when the application calls Shutdown
ShutCallers == {"serve", "shutdown"}

\* server.go:208; before Run has set s.cancel it is nil, and calling it
\* panics
ShutCancel ==
  /\ mgr.up
  /\ stop["shutdown"].pc = "cancel"
  /\ IF mgr.ctx = "nil"
       THEN /\ stop' = [stop EXCEPT !["shutdown"].pc = "panicked"]
            /\ UNCHANGED mgr
       ELSE /\ mgr' = [mgr EXCEPT !.ctx = "cancelled"]
            /\ stop' = [stop EXCEPT !["shutdown"].pc = "closelnr"]
  /\ UNCHANGED <<env, repo, cli, hs, net, task, sess, closeCalls>>

\* server.go:209
ShutCloseLnr ==
  /\ mgr.up
  /\ stop["shutdown"].pc = "closelnr"
  /\ mgr' = [mgr EXCEPT !.lnr = "closed"]
  /\ stop' = [stop EXCEPT !["shutdown"].pc = "wait",
                          !["shutdown"].cerr = lnrCloseErr]
  /\ UNCHANGED <<env, repo, cli, hs, net, task, sess, closeCalls>>

\* the deadline of the ctx passed to Shutdown elapses
ShutDeadline ==
  /\ mgr.up
  /\ stop["shutdown"].pc \in {"cancel", "closelnr", "wait"}
  /\ stop["shutdown"].ctx = "live"
  /\ stop' = [stop EXCEPT !["shutdown"].ctx = "done"]
  /\ UNCHANGED <<env, repo, mgr, cli, hs, net, task, sess, closeCalls>>

\* a select that has no case for ctx.Done()
shutWaitOverNoDeadline(wg, ctx) == wg = 0

\* server.go:211-220: sessionsWG.Wait() has returned and done is closed, or
\* ctx.Done() is closed
shutWaitOver(wg, ctx) == wg = 0 \/ ctx = "done"

\* server.go:217-220
ShutWait ==
  /\ mgr.up
  /\ stop["shutdown"].pc = "wait"
  /\ shutWaitOver(mgr.sessionsWG, stop["shutdown"].ctx)
  /\ stop' = [stop EXCEPT !["shutdown"].pc = "lock"]
  /\ UNCHANGED <<env, repo, mgr, cli, hs, net, task, sess, closeCalls>>

\* server.go:222
ShutLock ==
  /\ mgr.up
  /\ stop["shutdown"].pc = "lock" /\ mgr.mtx = "free"
  /\ mgr' = [mgr EXCEPT !.mtx = "shutdown"]
  /\ stop' = [stop EXCEPT !["shutdown"].pc = "take"]
  /\ UNCHANGED <<env, repo, cli, hs, net, task, sess, closeCalls>>

\* server.go:223-228
ShutTake ==
  /\ mgr.up
  /\ stop["shutdown"].pc = "take"
  /\ stop' = [stop EXCEPT !["shutdown"].pc = "close",
                          !["shutdown"].took = stopSnapshot(mgr.conns),
                          !["shutdown"].left = stopSnapshot(mgr.conns)]
  /\ mgr' = [mgr EXCEPT !.conns = {}, !.mtx = "free"]
  /\ UNCHANGED <<env, repo, cli, hs, net, task, sess, closeCalls>>

\* server.go:230-236
ShutCloseConn ==
  /\ mgr.up
  /\ stop["shutdown"].pc = "close"
  /\ \E c \in stop["shutdown"].left :
       /\ closeCalls' = [closeCalls EXCEPT ![c] = Append(@, StopServer)]
       /\ stop' = [stop EXCEPT !["shutdown"].left = @ \ {c},
                               !["shutdown"].errs = Append(@, closeConnErr(c))]
  /\ UNCHANGED <<env, repo, mgr, cli, hs, net, task, sess>>

\* server.go:237
ShutReturn ==
  /\ mgr.up
  /\ stop["shutdown"].pc = "close" /\ stop["shutdown"].left = {}
  /\ stop' = [stop EXCEPT
                !["shutdown"].pc = "returned",
                !["shutdown"].ret =
                  Join(<<stop["shutdown"].cerr>> \o stop["shutdown"].errs)]
  /\ UNCHANGED <<env, repo, mgr, cli, hs, net, task, sess, closeCalls>>

ShutStep ==
  \/ ShutCancel \/ ShutCloseLnr \/ ShutWait \/ ShutLock \/ ShutTake
  \/ ShutCloseConn \/ ShutReturn

\* The running server of SrvInit; the application calls Shutdown at a time
\* of its choosing and never Stop.
ShutInit ==
  /\ repo = {TokenOf(1)}
  /\ env \in [faulty : {FALSE}, lnrFaulty : {FALSE}, repo0 : {repo},
             badConns : {{}}, lnrBad : {FALSE}]
  /\ mgr = mgr0
  /\ stop = [k \in ShutCallers |-> IF k = "shutdown" THEN shut0 ELSE stop0]
  /\ cli = [c \in Conns |-> [cli0 EXCEPT !.kind = "dialer"]]
  /\ hs = [c \in Conns |-> hs0]
  /\ net = [c \in Conns |-> net0]
  /\ task = [c \in Conns |-> task0]
  /\ sess = [c \in Conns |-> sess0]
  /\ closeCalls = [c \in Conns |-> <<>>]

ShutNext ==
  \/ ServeStep
  \/ StopStep("serve")
  \/ ShutStep
  \/ ShutDeadline
  \/ \E c \in Conns : ConnStep(c)

SpecShut == ShutInit /\ [][ShutNext]_vars

\* Shutdown, the deadline of its ctx and every holder of the lock keep
\* running while they can take a step; handlers need not ever return.
LiveShut ==
  /\ ShutInit /\ [][ShutNext]_vars
  /\ WF_vars(ShutStep) /\ WF_vars(ShutDeadline)
  /\ WF_vars(AcceptAdd) /\ WF_vars(StopTake("serve"))
  /\ \A c \in Conns : WF_vars(TaskDelete(c))

(* ------------------ Stop and Shutdown around Run ---------------------- *)
\* every call of Stop or Shutdown there can be
AllCallers == {"user", "serve", "shutdown"}

\* server.go:108-118: quic.ListenAddr succeeded, Run has stored the listener
\* and made the context, and calls serve
RunStart ==
  /\ mgr.up
  /\ mgr.apc = "norun"
  /\ mgr' = [mgr EXCEPT !.lnr = "open", !.ctx = "live", !.apc = "accept"]
  /\ UNCHANGED <<env, repo, stop, cli, hs, net, task, sess, closeCalls>>

\* server.go:96-111: the certificate cannot be loaded or the address cannot
\* be listened on, and Run returns the error; nothing was stored
RunFails ==
  /\ mgr.up
  /\ mgr.apc = "norun"
  /\ mgr' = [mgr EXCEPT !.apc = "returned", !.ret = "listen"]
  /\ UNCHANGED <<env, repo, stop, cli, hs, net, task, sess, closeCalls>>

\* NewServer has returned (server.go:82-92) and Run has not been called; the
\* application calls Run, Stop() and Shutdown(ctx), each at a time of its
\* choosing; clients connect once the listener is there, and their tasks are
\* left out.
IdleInit ==
  /\ repo = {TokenOf(1)}
  /\ env \in [faulty : {FALSE}, lnrFaulty : BOOLEAN, repo0 : {repo},
              badConns : {{}}, lnrBad : BOOLEAN]
  /\ mgr = [mgr0 EXCEPT !.lnr = "nil", !.ctx = "nil", !.apc = "norun"]
  /\ stop = [k \in AllCallers |->
               IF k = "shutdown" THEN shut0
               ELSE IF k = "user" THEN [stop0 EXCEPT !.pc = "cancel"]
               ELSE stop0]
  /\ cli = [c \in Conns |-> [cli0 EXCEPT !.kind = "dialer"]]
  /\ hs = [c \in Conns |-> hs0]
  /\ net = [c \in Conns |-> net0]
  /\ task = [c \in Conns |-> task0]
  /\ sess = [c \in Conns |-> sess0]
  /\ closeCalls = [c \in Conns |-> <<>>]

IdleNext ==
  \/ RunStart \/ RunFails
  \/ ServeStep
  \/ StopStep("user") \/ StopStep("serve")
  \/ ShutStep \/ ShutDeadline

SpecIdle == IdleInit /\ [][IdleNext]_vars

(* ---------------- Stop and Shutdown with failing closes --------------- *)
\* the calls the application makes
CloseCallers == {"user", "shutdown"}

\* Every connection has been accepted and is tracked, and its handler runs;
\* the application calls Stop() and Shutdown(ctx), each at a time of its
\* choosing.  The environment fixes which closes fail.
CloseInit ==
  /\ repo = {TokenOf(1)}
  /\ env \in [faulty : {FALSE}, lnrFaulty : {FALSE}, repo0 : {repo},
              badConns : SUBSET Conns, lnrBad : BOOLEAN]
  /\ mgr = [mgr0 EXCEPT !.conns = Conns, !.sessionsWG = MaxConns,
                        !.next = MaxConns + 1, !.cur = MaxConns]
  /\ stop = [k \in CloseCallers |->
               IF k = "shutdown" THEN shut0 ELSE [stop0 EXCEPT !.pc = "cancel"]]
  /\ cli = [c \in Conns |-> [cli0 EXCEPT !.kind = "dialer", !.pc = "rawdone"]]
  /\ hs = [c \in Conns |-> [hs0 EXCEPT !.pc = "done", !.stream = TRUE]]
  /\ task = [c \in Conns |-> [task0 EXCEPT !.pc = "handler", !.calls = 1]]
  /\ net = [c \in Conns |-> [net0 EXCEPT !.opened = TRUE]]
  /\ sess = [c \in Conns |-> [sess0 EXCEPT !.exists = TRUE]]
  /\ closeCalls = [c \in Conns |-> <<>>]

CloseNext ==
  \/ StopStep("user")
  \/ ShutStep
  \/ ShutDeadline
  \/ \E c \in Conns :
       HandlerReturn(c) \/ TaskClose(c) \/ TaskLock(c) \/ TaskDelete(c)

SpecClose == CloseInit /\ [][CloseNext]_vars

(* -------------------- the codec, over one byte pipe ------------------ *)
\* One message is built, encoded onto a pipe (net[1].c2s) and decoded from
\* it by a reader that returns the bytes in pieces, and io.EOF on its own
\* once the writing side has closed the pipe and nothing is left.  rev names the codec:
\* "msg" is internal/msg (New, setters, Write; Rcv, Read), "protocol" is
\* Message.Write and Message.Read of protocol.go, "binary" is MarshalBinary
\* and UnmarshalBinary of protocol.go.  A protocol.go Message gets its
\* payload from UnmarshalBinary, so its length field is whatever the bytes
\* said (len0).  The writers used write all the bytes they are given.
CodecRevs == {"msg", "protocol", "binary"}
CodecTypes == {TypeControl, TypeText, TypeBinary}
CodecTimestamps == Timestamps \cup {0, 2147483647}
CodecTokens == Tokens
CodecPayloads == {<<>>, PldOk, PldHello}
CodecLens == {0, 2, 5}
\* the id of a message: the 16 bytes of rand.Read, or none yet
CodecIDs == MsgIDs \cup {Zeros(16)}

enc0 ==
  [kind |-> "encoder", pc |-> "build", rev |-> "msg", typ |-> TypeControl,
   ms |-> 0, id |-> Zeros(16), tok |-> ZeroTok, pld |-> <<>>, len0 |-> 0,
   hdr |-> Zeros(hdrLen), total |-> 0, out |-> <<>>, follow |-> <<>>]

\* a Write that sends the header as it is
msgWriteHdrStale(hdr, pld) == hdr

\* msg.go:71-72: SetLen(uint32(len(pld))), then the header is written
msgWriteHdr(hdr, pld) == SetLen(hdr, Len(pld))

\* protocol.go:178: w.Write(m.hdr[:])
protoWriteHdr(hdr, pld) == hdr

\* protocol.go:186-192: the loop runs while total < m.hdr.Len() and each
\* w.Write(m.pld[total:]) writes what is left of the payload; with nothing
\* left and total still below Len() it writes nothing, for ever
protoWritePld(hdr, pld, total) ==
  IF total < HLen(hdr) THEN Drop(pld, total) ELSE <<>>

protoWriteDone(hdr, pld, total) == total >= HLen(hdr)

protoWriteSpins(hdr, pld, total) == total < HLen(hdr) /\ total >= Len(pld)

\* protocol.go:143-148
MarshalBinary(hdr, pld) == hdr \o pld

\* protocol.go:134-141
UnmarshalBinary(data) ==
  IF Len(data) < hdrLen
    THEN [err |-> "ErrShortMsg", hdr |-> Zeros(hdrLen), pld |-> <<>>]
    ELSE [err |-> "nil", hdr |-> SubSeq(data, 1, hdrLen),
          pld |-> Drop(data, hdrLen)]

\* a Rcv that reads every piece to the start of the header
rcvIntoStart(hdr, total, data) == CopyAt(hdr, 0, data)

\* msg.go:84 and protocol.go:151: r.Read(m.hdr[total:])
rcvInto(hdr, total, data) == CopyAt(hdr, total, data)

\* a payload read that asks for a whole buffer every time
readLimitBuf(rev, len, total) == buflen

\* the most one payload read asks for.  msg.go:96-100: a buffer of buflen
\* bytes, cut to what is left of the payload; protocol.go:166:
\* r.Read(m.pld[total:]), all that is left of the payload
readLimit(rev, len, total) ==
  IF rev = "msg" /\ len - total >= buflen THEN buflen ELSE len - total

\* the sizes of the pieces a reader asked for at most limit bytes returns
\* when avail bytes are there: one byte, MaxRead bytes, or all it can
ReadSizes(avail, limit) ==
  LET most == IF avail < limit THEN avail ELSE limit
  IN  {n \in {1, MaxRead, most} : n >= 1 /\ n <= most}

\* msg.New, SetType, SetToken; in protocol.go the header setters and
\* UnmarshalBinary of the header followed by the payload
EncBuild(c) ==
  /\ cli[c].kind = "encoder" /\ cli[c].pc = "build"
  /\ LET e == cli[c]
         hdr == SetLen(SetToken(SetType(New(e.id, e.ms), e.typ), e.tok),
                       e.len0)
         m == UnmarshalBinary(MarshalBinary(hdr, e.pld))
     IN  cli' = [cli EXCEPT ![c].pc = "hdr",
                            ![c].hdr = IF e.rev = "msg" THEN hdr ELSE m.hdr]
  /\ UNCHANGED <<env, repo, mgr, stop, hs, net, task, sess, closeCalls>>

\* protocol.go:219-229: Message.EnsureID on the message that was built.  A
\* zero id is replaced by the 16 bytes rand.Read gave, and another id is
\* left as it is; when rand.Read fails the error is returned and the
\* message is as it was.
EnsureID(c) ==
  /\ cli[c].kind = "encoder" /\ cli[c].pc = "hdr" /\ cli[c].rev # "msg"
  /\ \/ \E id \in MsgIDs :
          LET hdr == IF ID(cli[c].hdr) = Zeros(16)
                       THEN setID(cli[c].hdr, id) ELSE cli[c].hdr
          IN  cli' = [cli EXCEPT ![c].hdr = hdr, ![c].id = ID(hdr)]
     \/ UNCHANGED cli
  /\ UNCHANGED <<env, repo, mgr, stop, hs, net, task, sess, closeCalls>>

\* msg.go:71-75, protocol.go:178-184: the header goes out;
\* protocol.go:143-148: MarshalBinary gives header and payload at once
EncWriteHdr(c) ==
  /\ cli[c].kind = "encoder" /\ cli[c].pc = "hdr"
  /\ LET e == cli[c] IN
     \/ /\ e.rev = "msg"
        /\ cli' = [cli EXCEPT ![c].pc = "pld",
                              ![c].hdr = msgWriteHdr(e.hdr, e.pld),
                              ![c].out = @ \o msgWriteHdr(e.hdr, e.pld)]
        /\ net' = [net EXCEPT ![c].c2s = @ \o msgWriteHdr(e.hdr, e.pld)]
     \/ /\ e.rev = "protocol"
        /\ cli' = [cli EXCEPT ![c].pc = "pld",
                              ![c].out = @ \o protoWriteHdr(e.hdr, e.pld)]
        /\ net' = [net EXCEPT ![c].c2s = @ \o protoWriteHdr(e.hdr, e.pld)]
     \/ /\ e.rev = "binary"
        /\ cli' = [cli EXCEPT ![c].pc = "done", ![c].total = Len(e.pld),
                              ![c].out = @ \o MarshalBinary(e.hdr, e.pld)]
        /\ net' = [net EXCEPT ![c].c2s = @ \o MarshalBinary(e.hdr, e.pld)]
  /\ UNCHANGED <<env, repo, mgr, stop, hs, task, sess, closeCalls>>

\* msg.go:76-77: writeFull(m.w, pld); protocol.go:186-193: the payload loop
EncWritePld(c) ==
  /\ cli[c].kind = "encoder" /\ cli[c].pc = "pld"
  /\ LET e == cli[c] IN
     \/ /\ e.rev = "msg"
        /\ cli' = [cli EXCEPT ![c].pc = "done", ![c].total = Len(e.pld),
                              ![c].out = @ \o e.pld]
        /\ net' = [net EXCEPT ![c].c2s = @ \o e.pld]
     \/ /\ e.rev = "protocol"
        /\ LET out == protoWritePld(e.hdr, e.pld, e.total)
               total == e.total + Len(out)
           IN  /\ cli' = [cli EXCEPT
                            ![c].total = total,
                            ![c].out = @ \o out,
                            ![c].pc =
                              IF protoWriteDone(e.hdr, e.pld, total)
                                THEN "done"
                              ELSE IF protoWriteSpins(e.hdr, e.pld, total)
                                THEN "spin" ELSE "pld"]
               /\ net' = [net EXCEPT ![c].c2s = @ \o out]
  /\ UNCHANGED <<env, repo, mgr, stop, hs, task, sess, closeCalls>>

\* the first bytes of the frame that follows on the same stream
FollowBytes == <<TypeText, 0, 0>>

\* session.go:60-81: the writer goes on to the next message of the stream
\* once Write has returned
EncFollow(c) ==
  /\ cli[c].kind = "encoder" /\ cli[c].pc = "done"
  /\ cli[c].rev # "binary" /\ cli[c].follow = <<>>
  /\ cli' = [cli EXCEPT ![c].follow = FollowBytes]
  /\ net' = [net EXCEPT ![c].c2s = @ \o FollowBytes]
  /\ UNCHANGED <<env, repo, mgr, stop, hs, task, sess, closeCalls>>

\* the ways a write of bytes can fail part of the way: the strict prefixes
\* of bytes that reach the pipe before the writer's error
CutPoints(bytes) ==
  {k \in {0, 1, hdrLen - 1, hdrLen, Len(bytes) - 1} : k >= 0 /\ k < Len(bytes)}

\* msg.go:73-77, protocol.go:186-190: the bytes the payload loop still has
\* to write, and whether it calls w.Write at all (writeFull does not for an
\* empty payload; protocol.go's loop does while total < Len(), even with
\* nothing left)
pldLeft(e) == IF e.rev = "msg" THEN e.pld ELSE Drop(e.pld, e.total)

pldWrites(e) ==
  IF e.rev = "msg" THEN e.pld # <<>> ELSE e.total < HLen(e.hdr)

\* msg.go:57-67 and 71-77, protocol.go:178-192: a w.Write fails and Write
\* returns the error with part of the frame written; the writing side of
\* the pipe is then closed, so that the reader finds the end of the bytes
\* after that part.  msg.go:71 has set the length field before the first
\* write.  For MarshalBinary, a prefix of the bytes is all
\* that is handed on.
EncFail(c) ==
  /\ cli[c].kind = "encoder"
  /\ LET e == cli[c] IN
     \/ /\ e.pc = "hdr"
        /\ LET hdr == IF e.rev = "msg" THEN msgWriteHdr(e.hdr, e.pld)
                                       ELSE e.hdr
               bytes == IF e.rev = "binary" THEN MarshalBinary(hdr, e.pld)
                                            ELSE hdr
           IN  \E k \in CutPoints(bytes) :
                 /\ cli' = [cli EXCEPT ![c].pc = "failed", ![c].hdr = hdr,
                                       ![c].out = SubSeq(bytes, 1, k)]
                 /\ net' = [net EXCEPT ![c].c2s = @ \o SubSeq(bytes, 1, k),
                                       ![c].cfin = TRUE]
     \/ /\ e.pc \in {"pld", "spin"} /\ pldWrites(e)
        /\ \E k \in CutPoints(pldLeft(e)) \cup {0} :
             /\ cli' = [cli EXCEPT
                          ![c].pc = "failed",
                          ![c].out = @ \o SubSeq(pldLeft(e), 1, k)]
             /\ net' = [net EXCEPT
                          ![c].c2s = @ \o SubSeq(pldLeft(e), 1, k),
                          ![c].cfin = TRUE]
  /\ UNCHANGED <<env, repo, mgr, stop, hs, task, sess, closeCalls>>

\* msg.go:83-89 (Rcv) and protocol.go:151 (io.ReadFull): one read of header
\* bytes; protocol.go:159-165: the payload buffer is made
DecRcv(c) ==
  /\ hs[c].kind = "decoder" /\ hs[c].pc = "rcv" /\ cli[c].rev # "binary"
  /\ \E n \in ReadSizes(Len(net[c].c2s), hdrLen - hs[c].rcvd) :
       LET hdr == rcvInto(hs[c].hdr, hs[c].rcvd, SubSeq(net[c].c2s, 1, n))
           total == hs[c].rcvd + n
       IN  /\ hs' = [hs EXCEPT
                       ![c].hdr = hdr, ![c].rcvd = total,
                       ![c].pc = IF total < hdrLen THEN "rcv"
                                 ELSE IF HLen(hdr) = 0 THEN "done"
                                 ELSE "read"]
           /\ net' = [net EXCEPT ![c].c2s = Drop(@, n)]
  /\ UNCHANGED <<env, repo, mgr, stop, cli, task, sess, closeCalls>>

\* msg.go:96-109 (Read, its chunks put together by the caller) and
\* protocol.go:164-173: one read of payload bytes
DecRead(c) ==
  /\ hs[c].kind = "decoder" /\ hs[c].pc = "read"
  /\ LET len == HLen(hs[c].hdr)
         total == Len(hs[c].pld)
     IN  \E n \in ReadSizes(Len(net[c].c2s),
                             readLimit(cli[c].rev, len, total)) :
           /\ hs' = [hs EXCEPT
                       ![c].pld = @ \o SubSeq(net[c].c2s, 1, n),
                       ![c].chunks = Append(@, n),
                       ![c].pc = IF total + n < len THEN "read" ELSE "done"]
           /\ net' = [net EXCEPT ![c].c2s = Drop(@, n)]
  /\ UNCHANGED <<env, repo, mgr, stop, cli, task, sess, closeCalls>>

\* msg.go:105-107: the consumer leaves its loop after a chunk, yield
\* returns false and the iterator returns
DecStop(c) ==
  /\ hs[c].kind = "decoder" /\ hs[c].pc = "read" /\ cli[c].rev = "msg"
  /\ hs[c].chunks # <<>>
  /\ hs' = [hs EXCEPT ![c].pc = "stopped"]
  /\ UNCHANGED <<env, repo, mgr, stop, cli, net, task, sess, closeCalls>>

\* the error io.ReadFull returns when the source ends after n bytes
readFullErr(n) == IF n = 0 THEN "EOF" ELSE "ErrUnexpectedEOF"

\* msg.go:102-104: on io.EOF the iterator returns; nothing is yielded
msgReadAtEOF == [pc |-> "ended", err |-> "nil"]

\* The source has ended: r.Read returns 0, io.EOF.  msg.go:85-87: Rcv
\* returns the error; msg.go:102-104: Read's iterator ends;
\* protocol.go:151-154: io.ReadFull's error is returned;
\* protocol.go:166-169: the payload loop returns the error.
DecEOF(c) ==
  /\ hs[c].kind = "decoder" /\ hs[c].pc \in {"rcv", "read"}
  /\ cli[c].rev # "binary"
  /\ net[c].c2s = <<>> /\ net[c].cfin
  /\ hs' = [hs EXCEPT
              ![c].pc = IF hs[c].pc = "read" /\ cli[c].rev = "msg"
                          THEN msgReadAtEOF.pc ELSE "failed",
              ![c].err = IF hs[c].pc = "read"
                           THEN (IF cli[c].rev = "msg"
                                   THEN msgReadAtEOF.err ELSE "EOF")
                         ELSE IF cli[c].rev = "msg" THEN "EOF"
                         ELSE readFullErr(hs[c].rcvd)]
  /\ UNCHANGED <<env, repo, mgr, stop, cli, net, task, sess, closeCalls>>

\* protocol.go:134-141: UnmarshalBinary of what MarshalBinary returned, or
\* of the part of it that arrived
DecUnmarshal(c) ==
  /\ hs[c].kind = "decoder" /\ hs[c].pc = "rcv"
  /\ cli[c].rev = "binary" /\ cli[c].pc \in {"done", "failed"}
  /\ LET m == UnmarshalBinary(net[c].c2s) IN
     /\ hs' = [hs EXCEPT ![c].hdr = m.hdr, ![c].pld = m.pld,
                         ![c].err = m.err, ![c].rcvd = Len(net[c].c2s),
                         ![c].pc = IF m.err = "nil" THEN "done" ELSE "failed"]
     /\ net' = [net EXCEPT ![c].c2s = <<>>]
  /\ UNCHANGED <<env, repo, mgr, stop, cli, task, sess, closeCalls>>

CodecInit ==
  /\ repo = {}
  /\ env = [faulty |-> FALSE, lnrFaulty |-> FALSE, repo0 |-> {},
           badConns |-> {}, lnrBad |-> FALSE]
  /\ mgr = mgr0
  /\ stop = [k \in StopCallers |-> stop0]
  /\ \E rev \in CodecRevs, typ \in CodecTypes, ms \in CodecTimestamps,
        id \in CodecIDs, tok \in CodecTokens, pld \in CodecPayloads,
        len0 \in CodecLens :
       cli = [c \in Conns |->
                IF c = 1
                  THEN [enc0 EXCEPT !.rev = rev, !.typ = typ, !.ms = ms,
                                    !.id = id, !.tok = tok, !.pld = pld,
                                    !.len0 = len0]
                  ELSE cli0]
  /\ hs = [c \in Conns |->
             IF c = 1 THEN [hs0 EXCEPT !.kind = "decoder", !.pc = "rcv"]
                      ELSE hs0]
  /\ task = [c \in Conns |-> task0]
  /\ net = [c \in Conns |-> IF c = 1 THEN [net0 EXCEPT !.opened = TRUE]
                                     ELSE net0]
  /\ sess = [c \in Conns |-> sess0]
  /\ closeCalls = [c \in Conns |-> <<>>]

CodecNext ==
  \/ EncBuild(1) \/ EnsureID(1) \/ EncWriteHdr(1) \/ EncWritePld(1)
  \/ EncFail(1) \/ EncFollow(1)
  \/ DecRcv(1) \/ DecRead(1) \/ DecStop(1) \/ DecEOF(1) \/ DecUnmarshal(1)

SpecCodec == CodecInit /\ [][CodecNext]_vars

(* ------------------------ header.go: Header --------------------------- *)
\* the unsigned integer the n bytes of h after offset off hold, most
\* significant first
beUint(h, off, n) ==
  LET RECURSIVE fold(_, _)
      fold(i, v) == IF i = n THEN v ELSE fold(i + 1, v * 256 + h[off + i + 1])
  IN  fold(0, 0)

\* h[off], ..., h[off+7] = byte(v >> 56), ..., byte(v)
putUint64(h, off, v) ==
  [i \in 1..Len(h) |->
     IF i > off /\ i <= off + 8 THEN ByteAt(v, 56 - 8 * (i - off - 1))
                                ELSE h[i]]

HeaderSetType(h, typ) == [h EXCEPT ![offTypeH + 1] = typ % 256]

HeaderType(h) == h[offTypeH + 1]

HeaderSetLen(h, length) == putUint64(h, offLenH, length)

HeaderLen(h) == beUint(h, offLenH, 8)

HeaderSetTimestamp(h, ts) == putUint64(h, offTSH, ts)

HeaderTimestamp(h) == beUint(h, offTSH, 8)

HeaderSetID(h, id) == CopyAt(h, offIDH, id)

HeaderID(h) == Slice(h, offIDH, 16)

HeaderSetToken(h, tok) == CopyAt(h, offTokH, tok)

HeaderToken(h) == Slice(h, offTokH, 16)

(* -------------------- the header accessors, applied ------------------- *)
\* One header, zero at first, has its setters called in any order with
\* values from small pools.  rev names the header: "msg" is the header of
\* internal/msg, "header" is Header of header.go.  prev is the header before
\* the last call, op the field that call set, and typ, len, ms, id, tok the
\* values last given to each setter.
HdrRevs == {"msg", "header"}
HdrFields == {"type", "length", "timestamp", "id", "token"}
HdrLens == {0, 2, 16909060}

hdr0 ==
  [kind |-> "header", rev |-> "msg", hdr |-> <<>>, prev |-> <<>>,
   op |-> "none", set |-> {}, typ |-> 0, len |-> 0, ms |-> 0,
   id |-> Zeros(16), tok |-> ZeroTok]

\* msg.go:143-148, header.go:42-51
hdrSetLen(rev, h, v) ==
  IF rev = "msg" THEN SetLen(h, v) ELSE HeaderSetLen(h, v)

\* the setter of field f called with value v
hdrSet(rev, f, h, v) ==
  CASE f = "type" -> IF rev = "msg" THEN SetType(h, v) ELSE HeaderSetType(h, v)
    [] f = "length" -> hdrSetLen(rev, h, v)
    [] f = "timestamp" ->
         IF rev = "msg" THEN setTimestamp(h, v) ELSE HeaderSetTimestamp(h, v)
    [] f = "id" -> IF rev = "msg" THEN setID(h, v) ELSE HeaderSetID(h, v)
    [] f = "token" -> IF rev = "msg" THEN SetToken(h, v) ELSE HeaderSetToken(h, v)

\* the getter of field f; a timestamp is given as its milliseconds
hdrGet(rev, f, h) ==
  CASE f = "type" -> IF rev = "msg" THEN Type(h) ELSE HeaderType(h)
    [] f = "length" -> IF rev = "msg" THEN HLen(h) ELSE HeaderLen(h)
    [] f = "timestamp" ->
         IF rev = "msg" THEN UnixMilli(Timestamp(h)) ELSE HeaderTimestamp(h)
    [] f = "id" -> IF rev = "msg" THEN ID(h) ELSE HeaderID(h)
    [] f = "token" -> IF rev = "msg" THEN Token(h) ELSE HeaderToken(h)

\* the values a setter is called with
hdrPool(f) ==
  CASE f = "type" -> CodecTypes
    [] f = "length" -> HdrLens
    [] f = "timestamp" -> CodecTimestamps
    [] f = "id" -> MsgIDs
    [] f = "token" -> CodecTokens

\* the value last given to the setter of field f
hdrLast(e, f) ==
  CASE f = "type" -> e.typ
    [] f = "length" -> e.len
    [] f = "timestamp" -> e.ms
    [] f = "id" -> e.id
    [] f = "token" -> e.tok

\* one call of the setter of field f
HdrSet(c, f) ==
  /\ cli[c].kind = "header"
  /\ \E v \in hdrPool(f) :
       LET e == cli[c]
           e1 == [e EXCEPT !.prev = e.hdr, !.op = f, !.set = @ \cup {f},
                           !.hdr = hdrSet(e.rev, f, e.hdr, v)]
       IN  cli' = [cli EXCEPT ![c] =
                     CASE f = "type" -> [e1 EXCEPT !.typ = v]
                       [] f = "length" -> [e1 EXCEPT !.len = v]
                       [] f = "timestamp" -> [e1 EXCEPT !.ms = v]
                       [] f = "id" -> [e1 EXCEPT !.id = v]
                       [] f = "token" -> [e1 EXCEPT !.tok = v]]
  /\ UNCHANGED <<env, repo, mgr, stop, hs, net, task, sess, closeCalls>>

HdrInit ==
  /\ repo = {}
  /\ env = [faulty |-> FALSE, lnrFaulty |-> FALSE, repo0 |-> {},
           badConns |-> {}, lnrBad |-> FALSE]
  /\ mgr = mgr0
  /\ stop = [k \in StopCallers |-> stop0]
  /\ \E rev \in HdrRevs :
       LET z == Zeros(IF rev = "msg" THEN hdrLen ELSE hdrLenH) IN
       cli = [c \in Conns |->
                IF c = 1 THEN [hdr0 EXCEPT !.rev = rev, !.hdr = z, !.prev = z]
                         ELSE cli0]
  /\ hs = [c \in Conns |-> hs0]
  /\ task = [c \in Conns |-> task0]
  /\ net = [c \in Conns |-> net0]
  /\ sess = [c \in Conns |-> sess0]
  /\ closeCalls = [c \in Conns |-> <<>>]

HdrNext == \E f \in HdrFields : HdrSet(1, f)

SpecHdr == HdrInit /\ [][HdrNext]_vars

(* ------------------- a session's inbound side, alone ------------------ *)
\* the bytes the peer has sent on the stream after the handshake
InStream == [i \in 1..MaxInBytes |-> i]

\* Connection 1 has completed its handshake and its handler runs; the peer
\* has sent InStream and may close its side; the application calls Stop().
InInit ==
  /\ repo = {TokenOf(1)}
  /\ env \in [faulty : BOOLEAN, lnrFaulty : {FALSE}, repo0 : {repo},
             badConns : {{}}, lnrBad : {FALSE}]
  /\ mgr = [mgr0 EXCEPT !.conns = {1}, !.sessionsWG = 1, !.next = 2]
  /\ stop = [k \in StopCallers |->
               IF k = "user" THEN [stop0 EXCEPT !.pc = "cancel"] ELSE stop0]
  /\ cli = [c \in Conns |->
              IF c = 1 THEN [cli0 EXCEPT !.kind = "raw", !.pc = "raw"]
                       ELSE cli0]
  /\ hs = [c \in Conns |->
             IF c = 1 THEN [hs0 EXCEPT !.pc = "done", !.stream = TRUE]
                      ELSE hs0]
  /\ task = [c \in Conns |->
               IF c = 1 THEN [task0 EXCEPT !.pc = "handler", !.calls = 1]
                        ELSE task0]
  /\ net = [c \in Conns |->
              IF c = 1 THEN [net0 EXCEPT !.opened = TRUE, !.c2s = InStream]
                       ELSE net0]
  /\ sess = [c \in Conns |->
               IF c = 1 THEN [sess0 EXCEPT !.exists = TRUE] ELSE sess0]
  /\ closeCalls = [c \in Conns |-> <<>>]

InNext ==
  \/ HandlerInput(1) \/ InRead(1) \/ InCancelled(1) \/ InSend(1)
  \/ HandlerRecv(1) \/ RawFin(1) \/ StopStep("user")

SpecIn == InInit /\ [][InNext]_vars

(* ------------------ a session's outbound side, alone ------------------ *)
\* Connection 1 has completed its handshake and its handler runs; the
\* handler uses the outbound channel and the application calls Stop().
OutInit == InInit

OutNext ==
  \/ HandlerOutput(1) \/ HandlerSend(1) \/ HandlerClose(1)
  \/ OutCancelled(1) \/ OutTake(1) \/ OutWrite(1)
  \/ StopStep("user")

SpecOut == OutInit /\ [][OutNext]_vars

\* The same, with a caller that sends up to MaxOutChunks chunks unlike one
\* another and may close the channel at any time.
OutSeqNext ==
  \/ HandlerOutput(1) \/ HandlerSendSeq(1) \/ HandlerClose(1)
  \/ OutCancelled(1) \/ OutTake(1) \/ OutWrite(1)
  \/ StopStep("user")

SpecOutSeq == OutInit /\ [][OutSeqNext]_vars

\* the writer task keeps running while it can take a step; the caller and
\* the application need not do anything
LiveOutSeq ==
  SpecOutSeq /\ WF_vars(OutCancelled(1) \/ OutTake(1) \/ OutWrite(1))

(* ------------- cmd/server/main.go: the echo handler ------------------- *)
\* "hello from server"
PldGreeting ==
  <<104, 101, 108, 108, 111, 32, 102, 114, 111, 109, 32, 115, 101, 114,
    118, 101, 114>>

\* main.go:44-45: s.Input(ctx) and s.Output(ctx) start the reader and the
\* writer task, and the close of out is deferred
EchoStart(c) ==
  /\ mgr.up
  /\ task[c].pc = "handler" /\ sess[c].exists /\ sess[c].hpc = "none"
  /\ sess' = [sess EXCEPT ![c].hpc = "hello", ![c].ipc = "read",
                          ![c].opc = "select"]
  /\ UNCHANGED <<env, repo, mgr, stop, cli, hs, net, task, closeCalls>>

\* main.go:47 and 53: out <- v, a send with no other case: it waits for
\* room in the channel
EchoPut(c, v) ==
  /\ Len(sess[c].out) < chansz
  /\ sess' = [sess EXCEPT ![c].out = Append(@, v),
                          ![c].put = Append(@, v),
                          ![c].hpc = "select", ![c].hmsg = <<>>]

\* main.go:47
EchoHello(c) ==
  /\ mgr.up
  /\ task[c].pc = "handler" /\ sess[c].hpc = "hello"
  /\ EchoPut(c, PldGreeting)
  /\ UNCHANGED <<env, repo, mgr, stop, cli, hs, net, task, closeCalls>>

\* main.go:50-51 and 45: the select takes ctx.Done(), the handler returns
\* and its deferred function closes out
EchoDone(c) ==
  /\ mgr.up
  /\ task[c].pc = "handler" /\ sess[c].hpc = "select" /\ CtxDone
  /\ sess' = [sess EXCEPT ![c].hpc = "returned", ![c].outClosed = TRUE]
  /\ task' = [task EXCEPT ![c].pc = "close", ![c].how = "returned"]
  /\ UNCHANGED <<env, repo, mgr, stop, cli, hs, net, closeCalls>>

\* main.go:52: the select takes msg := <-in: the next chunk of the channel,
\* or nil at once when the channel is closed and empty
EchoRecv(c) ==
  /\ mgr.up
  /\ task[c].pc = "handler" /\ sess[c].hpc = "select"
  /\ sess[c].echoes < MaxEchoes
  /\ \/ /\ sess[c].inq # <<>>
        /\ sess' = [sess EXCEPT
                      ![c].hpc = "send", ![c].echoes = @ + 1,
                      ![c].hmsg = Bytes(Head(sess[c].inq), sess[c].ibuf),
                      ![c].inq = Tail(@)]
     \/ /\ sess[c].inq = <<>> /\ sess[c].inClosed
        /\ sess' = [sess EXCEPT ![c].hpc = "send", ![c].echoes = @ + 1,
                                ![c].hmsg = <<>>]
  /\ UNCHANGED <<env, repo, mgr, stop, cli, hs, net, task, closeCalls>>

\* main.go:53
EchoSend(c) ==
  /\ mgr.up
  /\ task[c].pc = "handler" /\ sess[c].hpc = "send"
  /\ EchoPut(c, sess[c].hmsg)
  /\ UNCHANGED <<env, repo, mgr, stop, cli, hs, net, task, closeCalls>>

\* Connection 1 has completed its handshake and its task calls the handler
\* of cmd/server; the peer has sent a few bytes and may close its side; the
\* application calls Stop().
EchoInit ==
  /\ repo = {TokenOf(1)}
  /\ env \in [faulty : BOOLEAN, lnrFaulty : {FALSE}, repo0 : {repo},
             badConns : {{}}, lnrBad : {FALSE}]
  /\ mgr = [mgr0 EXCEPT !.conns = {1}, !.sessionsWG = 1, !.next = 2]
  /\ stop = [k \in StopCallers |->
               IF k = "user" THEN [stop0 EXCEPT !.pc = "cancel"] ELSE stop0]
  /\ cli = [c \in Conns |->
              IF c = 1 THEN [cli0 EXCEPT !.kind = "raw", !.pc = "raw"]
                       ELSE cli0]
  /\ hs = [c \in Conns |->
             IF c = 1 THEN [hs0 EXCEPT !.pc = "done", !.stream = TRUE]
                      ELSE hs0]
  /\ task = [c \in Conns |->
               IF c = 1 THEN [task0 EXCEPT !.pc = "handler", !.calls = 1]
                        ELSE task0]
  /\ net = [c \in Conns |->
              IF c = 1
                THEN [net0 EXCEPT !.opened = TRUE,
                                  !.c2s = SubSeq(InStream, 1, MaxEchoIn)]
                ELSE net0]
  /\ sess = [c \in Conns |->
               IF c = 1 THEN [sess0 EXCEPT !.exists = TRUE] ELSE sess0]
  /\ closeCalls = [c \in Conns |-> <<>>]

EchoStep ==
  EchoStart(1) \/ EchoHello(1) \/ EchoDone(1) \/ EchoRecv(1) \/ EchoSend(1)

EchoInStep == InRead(1) \/ InCancelled(1) \/ InSend(1)

EchoOutStep == OutCancelled(1) \/ OutTake(1) \/ OutWrite(1)

EchoNext ==
  \/ EchoStep \/ EchoInStep \/ EchoOutStep
  \/ RawFin(1) \/ StopStep("user")
  \/ TaskClose(1) \/ TaskLock(1) \/ TaskDelete(1)

SpecEcho == EchoInit /\ [][EchoNext]_vars

\* The handler, the reader task, the writer task, the connection's task and
\* the call of Stop are goroutines that keep running while they can take a
\* step; the peer need not do anything.
LiveEcho ==
  /\ SpecEcho
  /\ WF_vars(EchoStep) /\ WF_vars(EchoInStep) /\ WF_vars(EchoOutStep)
  /\ WF_vars(StopStep("user"))
  /\ WF_vars(TaskClose(1) \/ TaskLock(1) \/ TaskDelete(1))

(* =========================== the handshake =========================== *)
\* the bytes a step appended to the server-to-client direction
Sent(c) == Drop(net[c].s2c', Len(net[c].s2c))

\* d is exactly one Control frame with payload pld
IsCtlFrame(d, pld) ==
  /\ Len(d) = hdrLen + Len(pld)
  /\ Type(RcvHdr(d)) = TypeControl
  /\ HLen(RcvHdr(d)) = Len(pld)
  /\ ReadFull(d) = pld

\* C1: the server's handshake has returned success only with the last frame
\* it received being a "login" whose header token HasToken reported present
\* (the token is in the repository), and with "ok" the last frame it sent; a
\* session exists only on such a stream.
C1_AuthOnlyAfterCheckedLogin ==
  \A c \in Conns :
    (hs[c].kind = "server" /\ (hs[c].pc = "done" \/ sess[c].exists)) =>
      /\ hs[c].pc = "done"
      /\ hs[c].pld = PldLogin
      /\ hs[c].checked = <<Token(hs[c].hdr), TRUE>>
      /\ Token(hs[c].hdr) \in repo
      /\ hs[c].last = PldOk

\* a stream authenticated on its second request, after a rejected first one
C1_Witness ==
  \E c \in Conns :
    /\ hs[c].kind = "server" /\ hs[c].pc = "done"
    /\ hs[c].rcvd >= 2 /\ hs[c].noes >= 1

\* C2: a received frame whose payload is neither "ack" nor "login", and a
\* "login" whose header token is not in the repository, are each answered,
\* when the write succeeds, by exactly one Control frame with payload "no";
\* the stream and the connection stay open and the server awaits the next
\* message on the same stream, with nothing counted against the peer.
C2_RejectAndKeepListening ==
  [][\A c \in Conns :
       /\ (hs[c].pc = "rcv" /\ hs'[c].pc \notin {"rcv", "failed"}) =>
            LET pld == ReadFull(hs[c].rd \o net[c].c2s) IN
            /\ pld \notin {PldAck, PldLogin} => hs'[c].pc = "other"
            /\ pld = PldLogin => hs'[c].pc = "login"
       /\ (hs[c].pc = "login" /\ hs'[c].pc \notin {"login", "failed"}
             /\ Token(hs[c].hdr) \notin repo) => hs'[c].pc = "sendno"
       /\ (hs[c].pc \in {"sendno", "other"}
             /\ hs'[c].pc \notin {hs[c].pc, "failed"}) =>
            /\ IsCtlFrame(Sent(c), PldNo)
            /\ hs'[c].pc = "rcv"
            /\ ~net'[c].sfin /\ ~net'[c].sclosed
            /\ closeCalls'[c] = closeCalls[c]
            /\ hs'[c].err = "nil"
            /\ hs'[c].noes = hs[c].noes + 1]_vars

\* two rejections in a row on one stream, one of each kind, and the server
\* awaiting a third message
C2_Witness ==
  \E c \in Conns :
    /\ hs[c].kind = "server" /\ hs[c].pc = "rcv" /\ hs[c].noes >= 2
    /\ hs[c].rcvd = hs[c].noes
    /\ ~net[c].sfin /\ ~ConnClosed(c)

\* C3: a token the server sends is a 16-byte token that SaveToken has already
\* stored: the repository holds it before the frame is written, the frame is
\* one Control frame whose payload is that token, the server then awaits the
\* next message, and when minting or saving fails nothing is written.
C3_SaveBeforeSend ==
  [][\A c \in Conns :
       /\ (hs[c].pc = "rcv" /\ hs'[c].pc \notin {"rcv", "failed"}
             /\ ReadFull(hs[c].rd \o net[c].c2s) = PldAck) =>
            hs'[c].pc = "ack"
       /\ (hs[c].pc = "ack" /\ hs'[c].pc # "ack") =>
            /\ Sent(c) = <<>>
            /\ \/ /\ hs'[c].pc = "sendtok"
                  /\ hs'[c].tok \in repo' /\ Len(hs'[c].tok) = 16
               \/ hs'[c].pc = "failed"
       /\ (hs[c].pc = "sendtok" /\ hs'[c].pc # "sendtok") =>
            /\ hs[c].tok \in repo
            /\ \/ /\ hs'[c].pc = "rcv" /\ IsCtlFrame(Sent(c), hs[c].tok)
               \/ hs'[c].pc = "failed"
       /\ (cli[c].pc = "awaittok" /\ cli'[c].pc = "login"
             /\ hs[c].kind = "server") => cli'[c].tok \in repo]_vars

\* the client has received a token that this handshake saved
C3_Witness ==
  \E c \in Conns :
    /\ hs[c].kind = "server" /\ cli[c].kind = "client"
    /\ cli[c].pc = "login" /\ cli[c].acks = 1
    /\ cli[c].tok \in hs[c].saved /\ cli[c].tok \notin env.repo0

\* C4: the client sends at most 4 logins; it fails with ErrInternal exactly
\* when the 4th login was answered with something other than "ok", having
\* sent exactly 4 logins.
C4_FourLoginsThenErrInternal ==
  \A c \in Conns :
    cli[c].kind = "client" =>
      /\ cli[c].logins <= 4
      /\ cli[c].rejects <= cli[c].logins
      /\ cli[c].err = "ErrInternal" =>
           cli[c].pc = "failed" /\ cli[c].logins = 4 /\ cli[c].rejects = 4
      /\ cli[c].rejects = 4 =>
           cli[c].pc = "failed" /\ cli[c].err = "ErrInternal"
      /\ (cli[c].rejects < 4 /\ cli[c].rejects = cli[c].logins
            /\ cli[c].err = "nil") =>
           cli[c].pc \in {"idle", "tok", "awaittok", "login"}

\* C5: a handshake that returned an error after its stream was opened or
\* accepted has closed the stream; one that returned success has not: the
\* client's stream stays open until handleConn itself returns.
C5_CloseOnFailureOnly ==
  \A c \in Conns :
    /\ (cli[c].kind = "client" /\ cli[c].pc = "failed" /\ net[c].opened)
         => net[c].cclosed /\ net[c].cfin
    /\ (cli[c].kind = "client" /\ cli[c].pc = "done" /\ ~cli[c].returned)
         => ~net[c].cclosed /\ ~net[c].cfin
    /\ (hs[c].kind = "server" /\ hs[c].pc = "failed" /\ hs[c].stream)
         => net[c].sclosed /\ net[c].sfin
    /\ (hs[c].kind = "server" /\ hs[c].pc = "done") => ~net[c].sclosed

\* this repository's client against this repository's server, with no call
\* into the environment failing
Reliable(c) ==
  ~env.faulty /\ cli[c].kind = "client" /\ hs[c].kind = "server"

\* the login on which a client is accepted: the second when its cached token
\* is a 16-byte token the repository does not hold, the first otherwise
AcceptedOn(c) ==
  IF Len(cli[c].cache0) = 16 /\ cli[c].cache0 \notin env.repo0 THEN 2 ELSE 1

\* C6: over a reliable stream and a repository that holds what was saved,
\* from every cache state both handshakes end authenticated; the client is
\* accepted on its first login, or on its second when its cached 16-byte
\* token is unknown, and never ends in ErrInternal.
C6_ReliableHandshakeAuthenticates ==
  /\ Reliable(1) => <>(cli[1].pc = "done" /\ hs[1].pc = "done")
  /\ [](Reliable(1) =>
          /\ cli[1].err # "ErrInternal"
          /\ cli[1].pc # "failed" /\ hs[1].pc # "failed"
          /\ cli[1].logins <= AcceptedOn(1)
          /\ cli[1].pc = "done" =>
               /\ cli[1].logins = AcceptedOn(1)
               /\ cli[1].rejects = AcceptedOn(1) - 1
               /\ cli[1].tok \in repo)

\* a client whose cached token the server did not know, accepted on its
\* second login with a fresh token
C6_Witness ==
  /\ Reliable(1) /\ cli[1].pc = "done" /\ hs[1].pc = "done"
  /\ Len(cli[1].cache0) = 16 /\ cli[1].cache0 \notin env.repo0
  /\ cli[1].logins = 2 /\ cli[1].acks = 1

(* ======================= the session's output ======================== *)
RECURSIVE Concat(_)
Concat(chunks) ==
  IF chunks = <<>> THEN <<>> ELSE Head(chunks) \o Concat(Tail(chunks))

IsPrefix(a, b) == Len(a) <= Len(b) /\ a = SubSeq(b, 1, Len(a))

\* the handshake ended authenticated on both sides, the handler put "hello"
\* on the outbound channel, the writer task wrote it, and the client's
\* reader has read all there is
HelloDelivered(c) ==
  /\ cli[c].kind = "client" /\ hs[c].kind = "server"
  /\ cli[c].pc = "done" /\ hs[c].pc = "done"
  /\ sess[c].put = <<PldHello>> /\ sess[c].wrote = <<PldHello>>
  /\ net[c].s2c = <<>>

\* C7 as stated: what the client has read is one frame of type Text with
\* payload "hello".
C7_HelloAsTextFrame ==
  \A c \in Conns :
    HelloDelivered(c) =>
      /\ FrameReady(cli[c].recv)
      /\ Type(RcvHdr(cli[c].recv)) = TypeText
      /\ ReadFull(cli[c].recv) = PldHello
      /\ AfterFrame(cli[c].recv) = <<>>

\* C7 amended: the client's reads, put together, are exactly the five bytes
\* "hello" with no header before them; at every moment they are a prefix of
\* the chunks the writer task wrote.  The client prints them, except the
\* bytes of a read that returned together with the end of the stream.
C7_HelloAsRawBytes ==
  \A c \in Conns :
    (cli[c].kind = "client" /\ hs[c].kind = "server") =>
      /\ IsPrefix(cli[c].recv \o cli[c].lost, Concat(sess[c].wrote))
      /\ IsPrefix(sess[c].wrote, sess[c].put)
      /\ HelloDelivered(c) => cli[c].recv \o cli[c].lost = PldHello
      /\ cli[c].lost # <<>> => (net[c].sfin /\ cli[c].reader = "ended")

\* a client that started with no token file has read and printed "hello"
C7_Witness ==
  \E c \in Conns :
    /\ HelloDelivered(c) /\ cli[c].cache0 = <<>> /\ cli[c].acks = 1
    /\ cli[c].recv = PldHello /\ cli[c].lost = <<>>

(* ======================= the server's lifecycle ====================== *)
\* how many times closeConn was called on a connection with a code
CountOf(calls, code) == Cardinality({i \in DOMAIN calls : calls[i] = code})

\* C8: the Handler is invoked for a connection only after Server.handshake
\* on it has returned a stream and no error, and at most once; a connection
\* whose handshake failed, is still running or never started has had no
\* Handler call and has no Session.
C8_HandlerOnlyAfterHandshake ==
  \A c \in Conns :
    /\ task[c].calls <= 1
    /\ task[c].calls = 1 => hs[c].pc = "done" /\ hs[c].err = "nil"
    /\ sess[c].exists => hs[c].pc = "done" /\ hs[c].err = "nil"
    /\ hs[c].pc # "done" =>
         task[c].calls = 0 /\ ~sess[c].exists /\ task[c].pc # "handler"

\* the handler ran once on an authenticated connection and returned
C8_Witness ==
  /\ task[1].calls = 1 /\ task[1].how = "returned" /\ hs[1].pc = "done"
  /\ sess[1].exists

\* C9: a handling task that has ended, in whichever way, has called
\* closeConn with codes.Done once and has deleted its connection from
\* s.conns; a panic of the Handler takes the task to its deferred close and
\* leaves the accept loop and every other task where they are.
C9_TaskEndsWithDoneAndDelete ==
  /\ [](\A c \in Conns :
          /\ task[c].pc \in {"lock", "delete", "exit"} =>
               CountOf(closeCalls[c], Done) = 1
          /\ task[c].pc \in {"idle", "newsession", "handler", "close"} =>
               CountOf(closeCalls[c], Done) = 0
          /\ task[c].pc = "exit" => c \notin mgr.conns)
  /\ [][\A c \in Conns :
          /\ (task[c].pc = "delete" /\ task'[c].pc = "exit") =>
               mgr'.conns = mgr.conns \ {c}
          /\ (task[c].pc = "handler" /\ task'[c].pc # "handler") =>
               /\ task'[c].pc = "close"
               /\ task'[c].how \in {"returned", "panicked"}
               /\ mgr' = mgr
               /\ \A d \in Conns \ {c} : task'[d] = task[d]]_vars

\* one task ended after its handler panicked, another after its handshake
\* returned an error, and the accept loop has not ended
C9_Witness ==
  \E c, d \in Conns :
    /\ task[c].pc = "exit" /\ task[c].how = "panicked"
    /\ task[d].pc = "exit" /\ task[d].how = "none"
    /\ hs[d].pc = "failed" /\ hs[d].err = "io"
    /\ mgr.apc = "accept" /\ mgr.up

NoTaskInFlight == \A c \in Conns : task[c].pc \in {"idle", "exit"}

\* some handling task was started
SomeTaskStarted == \E c \in Conns : task[c].pc # "idle"

\* C11: when every handling task that was started has finished and the
\* deadline has not elapsed, a Shutdown waiting for the tasks stops waiting
\* (its wait is over without the deadline), and it finds no connection left
\* to close with StopServer.
C11_ShutdownStopsWaitingWhenTasksDone ==
  /\ (/\ stop["shutdown"].pc = "wait" /\ stop["shutdown"].ctx = "live"
      /\ NoTaskInFlight)
       => ENABLED ShutWait
  /\ (/\ stop["shutdown"].pc = "take" /\ NoTaskInFlight
      /\ mgr.apc \notin {"add", "spawn"})
       => mgr.conns = {}

C13_AcceptLoopReturnsNilOnStop ==
  /\ (mgr.apc = "returned" /\ ~env.lnrFaulty /\ ~env.lnrBad) =>
       (mgr.ret = "nil" /\ stop["serve"].pc = "idle")
  /\ (mgr.apc = "returned"
        /\ mgr.ret \in {"accept", "accept+closelistener"}) =>
       stop["serve"].pc = "returned"

\* the connections lnr.Accept has returned so far
Accepted == {c \in Conns : c < mgr.next}

\* the accept loop holds connection c between Accept and the go statement
InHand(c) == c = mgr.cur /\ mgr.apc \in {"check", "lock", "add", "spawn"}

\* C14: every connection returned by Accept, once the accept loop is done
\* with it, has been given its handling task (so none is dropped), it stays
\* in the tracked set until that task deletes it, and a task that has ended
\* has closed its connection with a close code.
C14_EveryAcceptedConnHandled ==
  \A c \in Accepted :
    ~InHand(c) =>
      /\ c \notin mgr.dropped
      /\ task[c].pc # "idle"
      /\ task[c].pc = "exit" => closeCalls[c] # <<>>

(* =========================== Session.Input =========================== *)
\* what the holders of the chunks of q see, chunk by chunk
ChunkBytes(q) == [i \in 1..Len(q) |-> Bytes(q[i], sess[1].ibuf)]

\* C15: the inbound channel never holds more than chansz (8) chunks; with
\* the channel full the reader task stays at its send with one chunk in
\* hand, able neither to send nor to read; and no chunk is dropped to make
\* room: while the reader runs, the chunks received, queued and in hand are
\* exactly the chunks read, and after it exited those received and queued
\* are the first of them.
C15_InputBackpressure ==
  LET s == sess[1] IN
  /\ Len(s.inq) <= chansz
  /\ Len(s.held) <= 1
  /\ (s.ipc = "select" /\ Len(s.inq) = chansz) =>
       (Len(s.held) = 1 /\ ~ENABLED InSend(1) /\ ~ENABLED InRead(1))
  /\ Len(s.reads) <= Len(s.got) + chansz + 1
  /\ s.ipc \in {"read", "select"} =>
       ChunkBytes(s.got \o s.inq \o s.held) = s.reads
  /\ s.ipc = "exited" =>
       ChunkBytes(s.got \o s.inq) = SubSeq(s.reads, 1, Len(s.got) + Len(s.inq))

\* nobody has received, eight chunks are queued and the reader waits to
\* send the ninth
C15_Witness ==
  /\ sess[1].ipc = "select" /\ sess[1].got = <<>>
  /\ Len(sess[1].inq) = chansz /\ Len(sess[1].held) = 1
  /\ Len(sess[1].reads) = chansz + 1

\* C16: the chunks the consumer has received are, in order and as the
\* consumer sees them now, the first chunks the reader read from the
\* stream, whatever was read into the shared buffer since.
C16_InputDeliversPrefixOfReads ==
  LET s == sess[1] IN
  /\ Len(s.got) <= Len(s.reads)
  /\ \A i \in 1..Len(s.got) : Bytes(s.got[i], s.ibuf) = s.reads[i]

\* two chunks were received and the buffer has been read into since
C16_Witness ==
  /\ Len(sess[1].got) >= 2 /\ Len(sess[1].reads) >= 4
  /\ SubSeq(sess[1].ibuf, 1, Len(sess[1].reads[1])) # sess[1].reads[1]

\* C17: the reader task enqueues no chunk once the caller's or the stream's
\* cancellation has fired, and it closes the inbound channel exactly once,
\* when it exits and not before.
C17_InputStopsOnCancel ==
  LET s == sess[1] IN
  /\ s.late = 0
  /\ s.icloses <= 1
  /\ s.inClosed <=> s.ipc = "exited"
  /\ s.inClosed => s.icloses = 1

(* =========================== Session.Output ========================== *)
\* the writer task of connection 1 leaves its loop in this step
OutLeaves == sess[1].opc \in {"select", "write"} /\ sess'[1].opc = "exited"

\* C18: the writer task calls stream.Close() exactly when it exits, on each
\* of its exit paths (outbound channel closed and drained, caller's
\* cancellation, stream's cancellation, failed write), so never twice; and
\* after it has exited nothing more is written to the stream.
C18_OutputClosesStreamOnce ==
  /\ [](sess[1].closes <= 1)
  /\ []((sess[1].opc = "exited") <=> (sess[1].closes = 1))
  /\ [](sess[1].opc = "exited" => net[1].sfin)
  /\ [][OutLeaves =>
          /\ sess'[1].closes = sess[1].closes + 1 /\ net'[1].sfin
          /\ \/ sess[1].opc = "select" /\ sess[1].out = <<>>
                   /\ sess[1].outClosed
             \/ sess[1].opc = "select" /\ CtxDone
             \/ sess[1].opc = "select" /\ StreamDone(1)
             \/ sess[1].opc = "write" /\ (env.faulty \/ ~SrvCanWrite(1))]_vars
  /\ [][sess[1].opc = "exited" =>
          /\ net'[1].s2c = net[1].s2c /\ sess'[1].wrote = sess[1].wrote
          /\ sess'[1].opc = "exited"]_vars

\* the writer task wrote a chunk, then exited and closed the stream
C18_Witness ==
  /\ sess[1].opc = "exited" /\ sess[1].closes = 1 /\ net[1].sfin
  /\ sess[1].wrote = <<PldHello>>

C20_EncodedLengthIsPayloadSize ==
  LET e == cli[1] IN
  (e.kind = "encoder" /\ e.rev \in {"msg", "protocol"}) =>
    /\ e.pc \in {"pld", "spin", "done"} =>
         /\ Len(e.out) >= hdrLen
         /\ HLen(SubSeq(e.out, 1, hdrLen)) = Len(e.pld)
    /\ e.pc # "spin"
    /\ e.pc = "done" =>
         /\ e.out = SubSeq(e.out, 1, hdrLen) \o e.pld
         /\ Len(e.out) = hdrLen + HLen(SubSeq(e.out, 1, hdrLen))

\* the source ended before the frame its header announces was complete:
\* short of the 53 header bytes, or short of the declared payload bytes
SourceShort ==
  /\ cli[1].kind = "encoder" /\ net[1].cfin
  /\ \/ Len(cli[1].out) < hdrLen
     \/ Len(cli[1].out) < hdrLen + HLen(SubSeq(cli[1].out, 1, hdrLen))

\* C21: when the source ended short of the header or of the declared
\* payload, a decoder that has come to its end (not one whose consumer left
\* early) has failed with an error; it has not ended with the bytes that
\* were there as its payload and no error.
C21_TruncatedFrameFails ==
  (SourceShort /\ hs[1].pc \notin {"rcv", "read", "stopped"}) =>
    (hs[1].pc = "failed" /\ hs[1].err # "nil")

(* ============================= the header ============================ *)
\* the byte positions (from 1) the claimed layout gives field f in a header
\* of 53 bytes: type 0, length 1-4, timestamp 5-12, id 21-36, token 37-52
ClaimedRange(f) ==
  CASE f = "type" -> {1}
    [] f = "length" -> 2..5
    [] f = "timestamp" -> 6..13
    [] f = "id" -> 22..37
    [] f = "token" -> 38..53

\* C22: after any call of a setter the header has 53 bytes, the call has
\* changed no byte outside the claimed range of its field, every other
\* field's getter gives what it gave before the call, and the getter of
\* every field set so far gives the value last set.
C22_HeaderFieldsIndependent ==
  LET e == cli[1] IN
  (e.kind = "header" /\ e.op # "none") =>
    /\ Len(e.hdr) = 53
    /\ \A i \in 1..Len(e.hdr) :
         i \notin ClaimedRange(e.op) => e.hdr[i] = e.prev[i]
    /\ \A f \in HdrFields \ {e.op} :
         hdrGet(e.rev, f, e.hdr) = hdrGet(e.rev, f, e.prev)
    /\ \A f \in e.set : hdrGet(e.rev, f, e.hdr) = hdrLast(e, f)

(* ========================== Stop and Shutdown ======================== *)
\* the number of errors among errs
ErrCount(errs) == Len(SelectSeq(errs, LAMBDA e : e # "nil"))

\* C23: when Stop() or Shutdown() has returned, it has called closeConn with
\* StopServer on every connection of its snapshot, whichever closes failed;
\* the error returned holds the listener's close error if there was one and
\* one error for each connection of the snapshot whose close failed, and
\* nothing else; and it is nil exactly when every one of those closes
\* succeeded.
C23_StopJoinsAllCloseErrors ==
  \A k \in DOMAIN stop :
    stop[k].pc = "returned" =>
      /\ \A c \in stop[k].took : CountOf(closeCalls[c], StopServer) >= 1
      /\ Len(stop[k].errs) = Cardinality(stop[k].took)
      /\ stop[k].cerr = lnrCloseErr
      /\ Len(stop[k].ret) =
           (IF env.lnrBad THEN 1 ELSE 0)
             + Cardinality(stop[k].took \cap env.badConns)
      /\ \A i \in 1..Len(stop[k].ret) : stop[k].ret[i] = "err"
      /\ stop[k].ret = <<>> <=>
           (~env.lnrBad /\ stop[k].took \cap env.badConns = {})

\* Stop() has returned three errors: the listener's close failed and so did
\* the close of each of the two connections of its snapshot, the second
\* being closed after the first had failed
C23_Witness ==
  /\ "user" \in DOMAIN stop /\ stop["user"].pc = "returned"
  /\ env.lnrBad /\ Cardinality(stop["user"].took \cap env.badConns) >= 2
  /\ Len(stop["user"].ret) >= 3

\* the server is running: Run has stored the listener and the context, and
\* neither Stop nor Shutdown has cancelled it
Running == mgr.ctx = "live" /\ mgr.lnr = "open"

\* the application's call k executes its first statement in this step
CallBegins(k) == stop[k].pc = "cancel" /\ stop'[k].pc # "cancel"

\* C24: a call of Stop() or Shutdown() made by the application while the
\* server is not running (before Run has stored listener and context, or
\* after a stop) returns at once with ErrServerNotRunning, and changes
\* nothing of the server and closes nothing.
C24_StopWhenNotRunning ==
  [][\A k \in {"user", "shutdown"} :
       (CallBegins(k) /\ ~Running) =>
         /\ stop'[k].pc = "returned"
         /\ stop'[k].ret = <<"ErrServerNotRunning">>
         /\ mgr' = mgr /\ closeCalls' = closeCalls]_vars

(* ======================= the streaming payload read ================== *)
SumSeq(ns) ==
  LET RECURSIVE sum(_)
      sum(i) == IF i = 0 THEN 0 ELSE ns[i] + sum(i - 1)
  IN  sum(Len(ns))

IsSuffix(a, b) == Len(a) <= Len(b) /\ a = Drop(b, Len(b) - Len(a))

\* declared lengths around the buffer size, and the totals read before
BigLens == {0, 1, 5, buflen - 1, buflen, buflen + 1, 2 * buflen + 1}

\* the bytes the decoder has taken off the stream
Consumed == Len(cli[1].out) + Len(cli[1].follow) - Len(net[1].c2s)

\* C25: for internal/msg, the chunks the payload read has yielded are
\* finitely many (no more than the declared length), each of 1 to 4096
\* bytes, and their total is the payload read so far and never more than
\* the length the header declares; the decoder has taken at most 53 + length
\* bytes off the stream, so the bytes of the following frame are all still
\* there; a consumer that has stopped reads nothing more; and for declared
\* lengths up to beyond two buffers each read asks for at most 4096 bytes
\* and at most what is left of the payload.
C25_StreamingReadBounded ==
  LET e == cli[1]
      d == hs[1]
  IN  (e.kind = "encoder" /\ e.rev = "msg") =>
        /\ \A i \in DOMAIN d.chunks : d.chunks[i] >= 1 /\ d.chunks[i] <= buflen
        /\ SumSeq(d.chunks) = Len(d.pld)
        /\ d.chunks # <<>> =>
             /\ d.rcvd = hdrLen
             /\ SumSeq(d.chunks) <= HLen(d.hdr)
             /\ Len(d.chunks) <= HLen(d.hdr)
        /\ Consumed = d.rcvd + Len(d.pld)
        /\ Consumed <= hdrLen + (IF d.rcvd = hdrLen THEN HLen(d.hdr) ELSE 0)
        /\ IsSuffix(e.follow, net[1].c2s)
        /\ d.pc = "stopped" =>
             ~ENABLED (DecRcv(1) \/ DecRead(1) \/ DecEOF(1))
        /\ \A len \in BigLens, total \in BigLens :
             total < len =>
               /\ readLimit("msg", len, total) >= 1
               /\ readLimit("msg", len, total) <= buflen
               /\ readLimit("msg", len, total) <= len - total

\* the consumer left after two chunks of "hello" with payload still on the
\* stream, in front of the following frame's bytes
C25_Witness ==
  /\ cli[1].kind = "encoder" /\ cli[1].rev = "msg" /\ cli[1].pld = PldHello
  /\ hs[1].pc = "stopped" /\ Len(hs[1].chunks) = 2
  /\ Len(hs[1].pld) < HLen(hs[1].hdr)
  /\ cli[1].follow = FollowBytes
  /\ Len(net[1].c2s) > Len(FollowBytes)

(* ======================== the server's mutex ========================= *)
\* the step is one of the thread that holds s.mtx: a Stop or Shutdown call,
\* the accept loop, or the task that is between Lock and Unlock
HolderActs ==
  \/ mgr.mtx \in DOMAIN stop /\ stop'[mgr.mtx] # stop[mgr.mtx]
  \/ mgr.mtx = "serve" /\ mgr'.apc # mgr.apc
  \/ mgr.mtx = "task" /\ \E c \in Conns : task[c].pc = "delete"
                                             /\ task'[c] # task[c]

\* the step closes a connection with a code or closes the listener
ClosesSomething ==
  \/ closeCalls' # closeCalls
  \/ mgr'.lnr # mgr.lnr /\ mgr'.lnr = "closed"

\* C26, as stated: every step that changes the set of tracked connections is
\* a step of the thread holding the server's mutex, and no connection and
\* no listener is closed while the mutex is held, by whichever thread.
C26_NoCloseWhileMutexHeld ==
  [][/\ mgr'.conns # mgr.conns => HolderActs
     /\ ClosesSomething => mgr.mtx = "free"]_vars

\* C26: every step that changes the set of tracked connections (the add
\* after accept, a task's delete, the take-and-clear of Stop and Shutdown)
\* is a step of the thread holding the server's mutex, and no step that
\* closes a connection or the listener is a step of the thread holding it:
\* the holder is always between Lock and Unlock of its map operation, and
\* the closes of the other threads go on meanwhile.
C26_ConnSetUnderMutexNoCloseUnderMutex ==
  [][/\ mgr'.conns # mgr.conns => HolderActs
     /\ ClosesSomething => ~HolderActs
     /\ mgr.mtx \in DOMAIN stop /\ mgr.mtx # "serve" =>
          stop[mgr.mtx].pc = "take"
     /\ mgr.mtx = "serve" =>
          (mgr.apc = "add" \/ stop["serve"].pc = "take")
     /\ mgr.mtx = "task" =>
          Cardinality({c \in Conns : task[c].pc = "delete"}) = 1]_vars

\* Shutdown has taken a connection out of the set and closed it while
\* another connection's task, done with its own close, holds the mutex for
\* its delete, and the accept loop has added both
C26_Witness ==
  /\ mgr.mtx = "task"
  /\ \E c \in Conns :
       /\ task[c].pc = "delete" /\ closeCalls[c] # <<>>
       /\ \E d \in Conns \ {c} : d \in stop["shutdown"].took
                                   /\ closeCalls[d] # <<>>

(* ===================== the client's token and login ================== *)
\* the bytes the step has put on the client's side of the stream
CliWrote == Drop(net'[1].c2s, Len(net[1].c2s))

\* the cached token is absent or not 16 bytes long, or the attempt is a retry
MustAck == Len(cli[1].cache) # 16 \/ cli[1].attempt > 1

\* C27: at the start of each attempt the client sends "ack" only if the
\* cached token is absent or not 16 bytes long or the attempt is a retry,
\* and in those cases it never goes on to the login without the exchange,
\* while with a 16-byte cache on the first attempt it goes to the login with
\* the cached token and sends no "ack"; a token received is in the cache,
\* in place of the value before, when the client goes on to the login; and
\* every login frame sent has the payload "login" and in its header the
\* token just obtained, which is what the cache holds.
C27_AckIffNeededLoginCarriesToken ==
  [][cli[1].kind = "client" =>
       /\ (cli[1].pc = "tok" /\ cli'[1] # cli[1]) =>
            /\ cli'[1].acks = cli[1].acks + 1 =>
                 (MustAck /\ cli'[1].pc = "awaittok"
                    /\ ReadFull(CliWrote) = PldAck)
            /\ MustAck => cli'[1].pc \in {"awaittok", "failed"}
            /\ ~MustAck => /\ cli'[1].acks = cli[1].acks
                           /\ cli'[1].pc \in {"login", "failed"}
            /\ cli'[1].pc = "login" => cli'[1].tok = cli[1].cache
       /\ cli[1].pc # "tok" => cli'[1].acks = cli[1].acks
       /\ (cli[1].pc = "awaittok" /\ cli'[1].pc = "login") =>
            /\ cli'[1].tok = ReadFull(cli[1].rd \o net[1].s2c)
            /\ cli'[1].cache = cli'[1].tok
       /\ cli'[1].pc = "login" =>
            (Len(cli'[1].tok) = 16 /\ cli'[1].cache = cli'[1].tok)
       /\ cli'[1].logins # cli[1].logins =>
            /\ cli[1].pc = "login" /\ cli'[1].logins = cli[1].logins + 1
            /\ Len(CliWrote) = hdrLen + Len(PldLogin)
            /\ ReadFull(CliWrote) = PldLogin
            /\ Token(RcvHdr(CliWrote)) = cli[1].tok
            /\ cli[1].tok = cli[1].cache]_vars

\* the first login went out with the 16-byte token of the cache and no
\* "ack"; the second attempt asked for a token, got another one, put it in
\* the cache and sent it with the second login
C27_Witness ==
  /\ cli[1].kind = "client" /\ cli[1].attempt = 2
  /\ cli[1].acks = 1 /\ cli[1].logins = 2
  /\ Len(cli[1].cache0) = 16 /\ cli[1].cache # cli[1].cache0
  /\ cli[1].tok = cli[1].cache

\* the step takes the reply to "ack" off the stream
TakesTokenReply ==
  /\ cli[1].kind = "client" /\ cli[1].pc = "awaittok"
  /\ FrameReady(cli[1].rd \o net[1].s2c)
  /\ net'[1].s2c = AfterFrame(cli[1].rd \o net[1].s2c)

\* C28: when the reply to "ack" that the client takes off the stream has a
\* payload of a length other than 16, the handshake has failed with
\* ErrInvalidToken in that step: the cache is as it was, nothing was written
\* to the stream, the attempt and the logins sent are as they were, and the
\* client's side of the stream is closed; a handshake that failed with
\* ErrInvalidToken does nothing more (no retry, no login), and that error
\* comes from nothing else.
C28_WrongSizeTokenFails ==
  [][/\ (TakesTokenReply /\ Len(ReadFull(cli[1].rd \o net[1].s2c)) # 16) =>
          /\ cli'[1].pc = "failed" /\ cli'[1].err = "ErrInvalidToken"
          /\ cli'[1].cache = cli[1].cache
          /\ cli'[1].logins = cli[1].logins
          /\ cli'[1].attempt = cli[1].attempt
          /\ net'[1].c2s = net[1].c2s
          /\ net'[1].cfin /\ net'[1].cclosed
     /\ (cli[1].kind = "client" /\ cli[1].err = "ErrInvalidToken") =>
          /\ cli'[1] = cli[1]
          /\ ~ENABLED CliStep
     /\ (cli[1].kind = "client" /\ cli'[1].err = "ErrInvalidToken"
           /\ cli[1].err # "ErrInvalidToken") =>
          (TakesTokenReply /\ Len(ReadFull(cli[1].rd \o net[1].s2c)) # 16)]_vars

(* ================= closes of a connection, and late accepts ========== *)
\* C29: the server calls close-with-code on a connection at most once,
\* whatever the order of its task's exit, Stop and Shutdown; no connection
\* has been closed both with Done and with StopServer.
C29_CloseWithCodeAtMostOnce ==
  \A c \in Conns :
    /\ Len(closeCalls[c]) <= 1
    /\ ~(CountOf(closeCalls[c], Done) >= 1
           /\ CountOf(closeCalls[c], StopServer) >= 1)

\* call k of Stop has taken its snapshot of the set
SnapshotTaken(k) == stop[k].pc \in {"close", "returned"}

\* C30: when a call of Stop has returned the set of tracked connections is
\* empty, and from the step in which Stop took its snapshot on the accept
\* loop adds no connection to the set and starts no task.
C30_NoAddAfterStopSnapshot ==
  [][\A k \in DOMAIN stop :
       /\ stop[k].pc = "returned" => mgr.conns = {}
       /\ SnapshotTaken(k) =>
            /\ mgr'.conns \subseteq mgr.conns
            /\ \A c \in Conns : task[c].pc = "idle" => task'[c].pc = "idle"]_vars

(* ========================== the echo handler ========================= *)
\* C31: once the context passed to the echo handler is cancelled the handler
\* returns: it does not stay in a send to the outbound channel for ever after
\* the writer task has exited, nor in the receive from the inbound channel.
C31_EchoHandlerReturnsAfterCancel ==
  (CtxDone /\ task[1].pc = "handler") ~> (task[1].pc # "handler")

(* ===================== the order of the chunks written =============== *)
\* the writer task has had nothing but the channel to act on: no
\* cancellation of the caller's context, no close of the connection
OutUndisturbed == ~CtxDone /\ ~ConnClosed(1)

\* C32: in every run the chunks written to the stream are a prefix of the
\* chunks sent on the outbound channel, in their order, and the bytes on the
\* stream are those chunks one after another; each write puts one chunk on
\* the stream; the writer task that leaves its loop with no cancellation
\* fired and no write failed has written every chunk sent and found the
\* channel closed and empty, and only in that step closes the stream; and
\* once the channel is closed the writer task does leave, with every chunk
\* written unless a cancellation fired or a write failed.
C32_OutputWritesChunksInOrder ==
  /\ [](/\ IsPrefix(sess[1].wrote, sess[1].put)
        /\ net[1].s2c = Concat(sess[1].wrote)
        /\ (sess[1].opc # "exited" /\ OutUndisturbed) => ~net[1].sfin)
  /\ [][sess'[1].wrote # sess[1].wrote =>
          /\ sess[1].opc = "write"
          /\ sess'[1].wrote = Append(sess[1].wrote, sess[1].buf)
          /\ sess[1].buf = sess[1].put[Len(sess[1].wrote) + 1]
          /\ net'[1].s2c = net[1].s2c \o sess[1].buf]_vars
  /\ [][(OutLeaves /\ sess[1].opc = "select" /\ OutUndisturbed) =>
          /\ sess[1].outClosed /\ sess[1].out = <<>>
          /\ sess[1].wrote = sess[1].put
          /\ ~net[1].sfin /\ net'[1].sfin]_vars
  /\ (sess[1].outClosed /\ sess[1].opc # "none")
       ~> (/\ sess[1].opc = "exited" /\ net[1].sfin
           /\ (OutUndisturbed /\ ~env.faulty) => sess[1].wrote = sess[1].put)

\* the caller sent three chunks unlike one another and closed the channel,
\* nothing was cancelled, and the writer task has written the three in
\* order and closed the stream
C32_Witness ==
  /\ sess[1].opc = "exited" /\ sess[1].outClosed /\ OutUndisturbed
  /\ Len(sess[1].put) = 3
  /\ sess[1].put[1] # sess[1].put[2] /\ sess[1].put[2] # sess[1].put[3]
  /\ sess[1].wrote = sess[1].put
  /\ net[1].s2c = Concat(sess[1].put) /\ net[1].sfin

(* ====================== the handshake in lock-step =================== *)
\* the client is about to send a request
CliAboutToSend == cli[1].kind = "client" /\ cli[1].pc \in {"tok", "login"}

\* the client waits for a response
CliWaits == cli[1].kind = "client" /\ cli[1].pc \in {"awaittok", "awaitresp"}

\* the server waits for the stream or for a request
SrvWaits == hs[1].kind = "server" /\ hs[1].pc \in {"accept", "rcv"}

\* the server is between a request it has received and its response
SrvAnswering ==
  hs[1].pc \in {"ack", "sendtok", "login", "sendno", "sendok", "other"}

\* C33: whenever the client is about to send a request nothing is on the
\* stream in either direction (every earlier request was taken and its
\* response received whole), and against this server the server is then
\* waiting or has ended; a step of the client that sends a request sends one
\* whole frame; the server has sent one response for each request received,
\* less the one it is answering, and each response is one Control frame: a
\* saved 16-byte token for "ack", "ok" or "no" for "login", "no" for anything
\* else; and in no state do the client wait for a response and the server
\* for a request with no whole frame on the stream in either direction.
C33_HandshakeLockStep ==
  /\ [](CliAboutToSend =>
          /\ net[1].c2s = <<>> /\ net[1].s2c = <<>>
          /\ hs[1].kind = "server" =>
               (SrvWaits \/ hs[1].pc = "failed") /\ hs[1].resp = hs[1].rcvd)
  /\ [][(cli[1].kind = "client"
           /\ cli'[1].acks + cli'[1].logins # cli[1].acks + cli[1].logins) =>
          /\ CliAboutToSend
          /\ cli'[1].acks + cli'[1].logins = cli[1].acks + cli[1].logins + 1
          /\ cli'[1].pc = (IF cli[1].pc = "tok" THEN "awaittok"
                                                ELSE "awaitresp")
          /\ net'[1].c2s = CliWrote
          /\ Len(CliWrote) = hdrLen + HLen(RcvHdr(CliWrote))]_vars
  /\ [](hs[1].kind = "server" =>
          /\ SrvAnswering => hs[1].resp = hs[1].rcvd - 1
          /\ hs[1].pc \in {"accept", "rcv", "done"} => hs[1].resp = hs[1].rcvd
          /\ hs[1].pc = "failed" =>
               hs[1].resp \in {hs[1].rcvd - 1, hs[1].rcvd})
  /\ [][(hs[1].kind = "server" /\ hs'[1].resp # hs[1].resp) =>
          /\ hs'[1].resp = hs[1].resp + 1
          /\ \E pld \in {PldOk, PldNo} \cup Tokens :
               /\ IsCtlFrame(Sent(1), pld)
               /\ hs[1].pld = PldAck => (Len(pld) = 16 /\ pld \in repo)
               /\ hs[1].pld = PldLogin => pld \in {PldOk, PldNo}
               /\ hs[1].pld \notin {PldAck, PldLogin} => pld = PldNo]_vars
  /\ [](~(/\ CliWaits /\ SrvWaits
          /\ ~FrameReady(hs[1].rd \o net[1].c2s)
          /\ ~FrameReady(cli[1].rd \o net[1].s2c)))

\* the client's login with a token the server does not know was answered
\* "no"; the client has asked for a token and waits for it while the server,
\* minting it, has sent one response for two requests received
C33_Witness ==
  /\ cli[1].kind = "client" /\ hs[1].kind = "server"
  /\ cli[1].pc = "awaittok" /\ cli[1].attempt = 2 /\ cli[1].logins = 1
  /\ hs[1].pc = "sendtok" /\ hs[1].rcvd = 2 /\ hs[1].resp = 1
  /\ hs[1].noes = 1
  /\ net[1].c2s = <<>> /\ net[1].s2c = <<>>

====
